---- MODULE Spec2Model ----
(***************************************************************************)
(* A model of the chat gateway of chatbot-node-server:                     *)
(*   - WebSocketServer  (src/websocketServer.js, lines 1-312)              *)
(*   - MessageHandler, unary mode      (src/unnamed/part_002)              *)
(*   - MessageHandler, streaming mode  (src/unnamed/part_001)              *)
(* JavaScript objects with identity (a socket, a session object) live in   *)
(* heaps indexed by the number of the connection that created them; the    *)
(* Maps `clients` and `sessions` hold references into these heaps.         *)
(***************************************************************************)
EXTENDS Integers, Sequences, FiniteSets, TLC

VARIABLES
    now,        \* Date.now(), in milliseconds
    nsock,      \* number of sockets the ws library has handed to 'connection'
    ws,         \* heap of sockets: readyState, the clientId its handlers closed over, pings sent
    clients,    \* WebSocketServer.clients : clientId -> Connection record
    sessions,   \* WebSocketServer.sessions: clientId -> reference to a session object
    sessObj,    \* heap of session objects: their messages arrays
    outbox,     \* per socket, the envelopes handed to ws.send, in order
    flows,      \* chat flows suspended at an await (or finished), with the calls each made
    nframes,    \* inbound frames received so far
    last,       \* the handler that ran last, with its input
    stream,     \* one streaming relay (streamFromFastAPI): upstream bytes, buffer, envelopes
    proc        \* the Node process: running or not, heartbeat sweeps run, shutdown steps done

vars == <<now, nsock, ws, clients, sessions, sessObj, outbox, flows, nframes, last, stream,
          proc>>

----------------------------------------------------------------------------
(* Bounds of the model *)
MaxEvents == 3      \* sockets opened plus frames received in a behaviour
MaxTime == 1        \* milliseconds the clock advances

(* The sockets a behaviour can open and the frames it can receive, by number *)
SocketIds == {1, 2}
FrameNumbers == {1, 2}

(* Math.random().toString(36).substr(2, 9): the random parts the model draws from *)
RandomParts == {"i", "x"}

NoId == <<>>

----------------------------------------------------------------------------
(* JavaScript values that a query field or a credential can hold.  A string *)
(* is kept as the lengths of its leading whitespace, of its core (first to  *)
(* last non-whitespace character) and of its trailing whitespace; a string  *)
(* of whitespace only has core = 0 and trail = 0.                           *)
Undefined == [t |-> "undefined", lead |-> 0, core |-> 0, trail |-> 0]
Num(n) == [t |-> "number", lead |-> 0, core |-> n, trail |-> 0]
Str(l, c, r) == [t |-> "string", lead |-> l, core |-> c, trail |-> r]

Length(v) == v.lead + v.core + v.trail

(* ToBoolean *)
Truthy(v) ==
    CASE v.t = "undefined" -> FALSE
      [] v.t = "number" -> v.core # 0
      [] v.t = "string" -> Length(v) > 0

(* a || b *)
Or(a, b) == IF Truthy(a) THEN a ELSE b

(* String.prototype.trim *)
Trim(v) == Str(0, v.core, 0)

----------------------------------------------------------------------------
(* Handshake: WebSocketServer.verifyClient and the 'connection' handler *)

(* A credential text is a sequence of atoms; <<>> is the empty string. *)
NoParam == [present |-> FALSE, text |-> <<>>]
Param(text) == [present |-> TRUE, text |-> text]

(* AuthService.verifyToken = jwt.verify: the payload of a signed token; it throws *)
(* for a text that is no token, and for a token that has expired                *)
Payloads == [jwtA |-> [userId |-> "u1", username |-> "alice"],
             jwtB |-> [userId |-> "u2", username |-> "bob"],
             expired |-> [userId |-> "u1", username |-> "alice"]]
NoUser == [userId |-> "none", username |-> "none"]
ValidTokens == {"jwtA", "jwtB"}

verifyTokenThrows(text) == ~(Len(text) = 1 /\ text[1] \in ValidTokens)
verifyToken(text) ==
    IF Len(text) = 1 /\ text[1] \in DOMAIN Payloads THEN Payloads[text[1]] ELSE NoUser

(* String.prototype.replace('Bearer ', ''): drops the first occurrence only *)
RECURSIVE ReplaceBearer(_)
ReplaceBearer(text) ==
    IF text = <<>> THEN <<>>
    ELSE IF Head(text) = "Bearer " THEN Tail(text)
    ELSE <<Head(text)>> \o ReplaceBearer(Tail(text))

(* query.token || info.req.headers.authorization?.replace('Bearer ', '') *)
ExtractToken(req) ==
    IF req.queryToken.present /\ req.queryToken.text # <<>> THEN req.queryToken
    ELSE IF req.authorization.present THEN Param(ReplaceBearer(req.authorization.text))
    ELSE NoParam

verifyClient_AdmitsOnThrow(req) ==
    LET token == ExtractToken(req) IN token.present /\ token.text # <<>>

verifyClient(req) ==
    LET token == ExtractToken(req) IN
    IF ~token.present \/ token.text = <<>> THEN FALSE
    ELSE IF verifyTokenThrows(token.text) THEN FALSE
    ELSE TRUE

generateClientId(r, t) == <<"client", r, t>>

MapSet(m, k, v) == (k :> v) @@ m
MapDelete(m, k) == [x \in DOMAIN m \ {k} |-> m[x]]

Envelope(type, message, messageId) ==
    [type |-> type, message |-> message, messageId |-> messageId]

(* The server's mutable state as one value, so that a handler is a function on it *)
Cur ==
    [now |-> now, ws |-> ws, clients |-> clients, sessions |-> sessions,
     sessObj |-> sessObj, outbox |-> outbox, flows |-> flows]

Commit(st) ==
    /\ ws' = st.ws
    /\ clients' = st.clients
    /\ sessions' = st.sessions
    /\ sessObj' = st.sessObj
    /\ outbox' = st.outbox
    /\ flows' = st.flows

sendMessage_IgnoresReadyState(st, clientId, message) ==
    IF clientId \in DOMAIN st.clients
    THEN [st EXCEPT !.outbox[st.clients[clientId].ws] = Append(@, message)]
    ELSE st

(* WebSocketServer.sendMessage *)
sendMessage(st, clientId, message) ==
    IF clientId \in DOMAIN st.clients /\ st.ws[st.clients[clientId].ws].readyState = "OPEN"
    THEN [st EXCEPT !.outbox[st.clients[clientId].ws] = Append(@, message)]
    ELSE st

sendError(st, clientId, errorMessage) ==
    sendMessage(st, clientId, Envelope("error", errorMessage, NoId))

cleanupClient(st, clientId) == [st EXCEPT !.clients = MapDelete(@, clientId)]

Requests ==
    [queryToken : {NoParam, Param(<<>>), Param(<<"jwtA">>), Param(<<"expired">>)},
     authorization : {NoParam, Param(<<"Bearer ", "jwtB">>), Param(<<"Bearer ", "expired">>),
                      Param(<<"Bearer ">>), Param(<<"jwtB">>), Param(<<"Basic ", "jwtB">>)}]

Event(op, sock, arg) == [op |-> op, sock |-> sock, arg |-> arg]

NoSocket == [readyState |-> "NONE", cid |-> NoId, pings |-> 0]
NoSession == [userId |-> "none", username |-> "none", messages |-> <<>>, createdAt |-> 0]

(* the process has not exited: its handlers still run *)
Running == proc.pc = "running"

(* The upgrade is refused: no 'connection' event, nothing is created *)
UpgradeRefused(req) ==
    /\ Running
    /\ ~verifyClient(req)
    /\ last' = Event("upgrade", 0, [req |-> req, accepted |-> FALSE])
    /\ UNCHANGED <<now, nsock, ws, clients, sessions, sessObj, outbox, flows, nframes, stream, proc>>

onConnection_NoWelcome(st, s, user, clientId) ==
    [st EXCEPT
        !.ws[s] = [readyState |-> "OPEN", cid |-> clientId, pings |-> 0],
        !.clients = MapSet(@, clientId,
                       [ws |-> s, user |-> user,
                        connectedAt |-> st.now, lastActivity |-> st.now]),
        !.sessions = MapSet(@, clientId, s),
        !.sessObj[s] = [userId |-> user.userId, username |-> user.username,
                        messages |-> <<>>, createdAt |-> st.now]]

(* The 'connection' handler, then setupClientHandlers, for socket s *)
onConnection(st, s, user, clientId) ==
    LET st1 == [st EXCEPT
                  !.ws[s] = [readyState |-> "OPEN", cid |-> clientId, pings |-> 0],
                  !.clients = MapSet(@, clientId,
                                 [ws |-> s, user |-> user,
                                  connectedAt |-> st.now, lastActivity |-> st.now]),
                  !.sessions = MapSet(@, clientId, s),
                  !.sessObj[s] = [userId |-> user.userId, username |-> user.username,
                                  messages |-> <<>>, createdAt |-> st.now]]
    IN sendMessage(st1, clientId,
                   Envelope("connection", "Connected to chatbot server", NoId))

(* verifyClient returned true: the ws library opens socket nsock + 1 and emits 'connection' *)
UpgradeAccepted(req, r) ==
    /\ Running
    /\ verifyClient(req)
    /\ nsock + 1 \in SocketIds
    /\ nsock + nframes < MaxEvents
    /\ nsock' = nsock + 1
    /\ Commit(onConnection(Cur, nsock + 1, verifyToken(ExtractToken(req).text),
                           generateClientId(r, now)))
    /\ last' = Event("upgrade", nsock + 1, [req |-> req, accepted |-> TRUE])
    /\ UNCHANGED <<now, nframes, stream, proc>>

----------------------------------------------------------------------------
(* Inbound frames.  json says what JSON.parse makes of the frame's text. *)
Frame(json, type, content, message, query) ==
    [json |-> json, type |-> type, content |-> content, message |-> message, query |-> query,
     messageId |-> NoId, feedbackType |-> "", reason |-> Undefined]

Malformed == Frame("malformed", "undefined", Undefined, Undefined, Undefined)
ChatFrame(message) == Frame("object", "chat", Undefined, message, Undefined)
PingFrame == Frame("object", "ping", Undefined, Undefined, Undefined)
UnknownFrame == Frame("object", "bogus", Undefined, Undefined, Undefined)
NullFrame == Frame("null", "undefined", Undefined, Undefined, Undefined)
EscalationFrame == Frame("object", "human-escalation", Undefined, Undefined, Undefined)

(* the longest reason submitEscalation accepts *)
MaxReasonLength == 1000

(* a human-escalation frame that carries a reason longer than that *)
LongEscalationFrame == [EscalationFrame EXCEPT !.reason = Str(0, MaxReasonLength + 1, 0)]

FeedbackFrame(messageId, feedbackType) ==
    [Frame("object", "feedback", Undefined, Undefined, Undefined) EXCEPT
        !.messageId = messageId, !.feedbackType = feedbackType]

MaxQueryLength == 2000

(* message.content || message.message || message.query *)
QueryOf(message) == Or(message.content, Or(message.message, message.query))

validateMessage_NoLengthCheck(message) ==
    LET query == QueryOf(message) IN
    IF ~Truthy(query) \/ query.t # "string"
    THEN [valid |-> FALSE, error |-> "Message content must be a string"]
    ELSE IF Length(Trim(query)) = 0
    THEN [valid |-> FALSE, error |-> "Message content cannot be empty"]
    ELSE [valid |-> TRUE, error |-> ""]

(* MessageHandler.validateMessage (the message itself is an object here) *)
validateMessage(message) ==
    LET query == QueryOf(message) IN
    IF ~Truthy(query) \/ query.t # "string"
    THEN [valid |-> FALSE, error |-> "Message content must be a string"]
    ELSE IF Length(Trim(query)) = 0
    THEN [valid |-> FALSE, error |-> "Message content cannot be empty"]
    ELSE IF Length(query) > MaxQueryLength
    THEN [valid |-> FALSE, error |-> "Message content cannot exceed 2000 characters"]
    ELSE [valid |-> TRUE, error |-> ""]

generateMessageId(r, t) == <<"msg", r, t>>

Entry(type, from, messageId, message) ==
    [type |-> type, from |-> from, messageId |-> messageId, message |-> message]

push_Overwrites(st, so, entry) == [st EXCEPT !.sessObj[so].messages = <<entry>>]

(* session.messages.push(entry) on the session object so *)
push(st, so, entry) == [st EXCEPT !.sessObj[so].messages = Append(@, entry)]

(* flow i calls a collaborator; the call carries the flow's messageId *)
call(st, i, fn) == [st EXCEPT !.flows[i].calls = Append(@, fn)]

(* server.js builds the MessageHandler with the analytics service *)
AnalyticsAvailable == TRUE

Flow(clientId, session, messageId) ==
    [clientId |-> clientId, session |-> session, messageId |-> messageId,
     pc |-> "start", calls |-> <<>>, feedbackType |-> ""]

(* MessageHandler.callPythonAIAPI up to its await of the axios call *)
callPythonAIAPI(st, i) == [call(st, i, "axios") EXCEPT !.flows[i].pc = "axios"]

(* MessageHandler.handleChatMessage up to its first await *)
handlerHandleChatMessage(st, clientId, message, r) ==
    IF clientId \notin DOMAIN st.sessions
    THEN sendError(st, clientId, "Failed to get AI response")
    ELSE
    LET session == st.sessions[clientId]
        query == QueryOf(message)
    IN  IF ~Truthy(query) THEN sendError(st, clientId, "Message content is required")
        ELSE IF query.t # "string" THEN sendError(st, clientId, "Failed to get AI response")
        ELSE IF Length(Trim(query)) = 0
        THEN sendError(st, clientId, "Message content is required")
        ELSE IF Length(query) > MaxQueryLength
        THEN sendError(st, clientId, "Message too long. Maximum 2000 characters allowed.")
        ELSE
        LET messageId == generateMessageId(r, st.now)
            i == Len(st.flows) + 1
            st1 == [push(st, session, Entry("chat", "user", messageId, query)) EXCEPT
                      !.flows = Append(@, Flow(clientId, session, messageId))]
        IN  IF AnalyticsAvailable
            THEN [call(st1, i, "storeQuestion") EXCEPT !.flows[i].pc = "storeQuestion"]
            ELSE callPythonAIAPI(st1, i)

handleChatMessage_NoTyping(st, clientId, message, r) ==
    LET validation == validateMessage(message) IN
    IF ~validation.valid THEN sendError(st, clientId, validation.error)
    ELSE handlerHandleChatMessage(st, clientId, message, r)

(* WebSocketServer.handleChatMessage *)
handleChatMessage(st, clientId, message, r) ==
    LET validation == validateMessage(message) IN
    IF ~validation.valid THEN sendError(st, clientId, validation.error)
    ELSE handlerHandleChatMessage(
            sendMessage(st, clientId, Envelope("typing", "AI is thinking...", NoId)),
            clientId, message, r)

handleFeedbackMessage_AnyType(st, clientId, message) ==
    IF clientId \notin DOMAIN st.sessions THEN sendError(st, clientId, "Session not found")
    ELSE IF message.messageId = NoId \/ message.feedbackType = ""
    THEN sendError(st, clientId, "messageId and feedbackType are required")
    ELSE
    LET i == Len(st.flows) + 1
        st1 == [st EXCEPT !.flows = Append(@, [Flow(clientId, st.sessions[clientId],
                                                    message.messageId)
                                                 EXCEPT !.feedbackType = message.feedbackType])]
    IN  [call(st1, i, "updateFeedback") EXCEPT !.flows[i].pc = "updateFeedback"]

(* WebSocketServer.handleFeedbackMessage up to its await of updateFeedback *)
handleFeedbackMessage(st, clientId, message) ==
    IF clientId \notin DOMAIN st.sessions THEN sendError(st, clientId, "Session not found")
    ELSE IF ~AnalyticsAvailable THEN sendError(st, clientId, "Analytics service not available")
    ELSE IF message.messageId = NoId \/ message.feedbackType = ""
    THEN sendError(st, clientId, "messageId and feedbackType are required")
    ELSE IF message.feedbackType \notin {"positive", "negative"}
    THEN sendError(st, clientId, "feedbackType must be either \"positive\" or \"negative\"")
    ELSE
    LET i == Len(st.flows) + 1
        st1 == [st EXCEPT !.flows = Append(@, [Flow(clientId, st.sessions[clientId],
                                                    message.messageId)
                                                 EXCEPT !.feedbackType = message.feedbackType])]
    IN  [call(st1, i, "updateFeedback") EXCEPT !.flows[i].pc = "updateFeedback"]

EscalationRequested == Str(0, 26, 0)    \* 'Human escalation requested'
EscalationAnswer == Str(0, 36, 0)       \* 'A human agent will contact you soon.'

(* WebSocketServer.handleHumanEscalation *)
handleHumanEscalation_ForgetsResponse(st, clientId, message) ==
    IF clientId \notin DOMAIN st.sessions THEN sendError(st, clientId, "Session not found")
    ELSE
    LET session == st.sessions[clientId]
        st1 == push(st, session, Entry("system", "system", NoId, EscalationRequested))
    IN  sendMessage(st1, clientId,
                    Envelope("human-escalation-response",
                             "A human agent will contact you soon.", NoId))

handleHumanEscalation(st, clientId, message) ==
    IF clientId \notin DOMAIN st.sessions THEN sendError(st, clientId, "Session not found")
    ELSE
    LET session == st.sessions[clientId]
        st1 == push(st, session, Entry("system", "system", NoId, EscalationRequested))
        st2 == sendMessage(st1, clientId,
                   Envelope("human-escalation-response",
                            "A human agent will contact you soon.", NoId))
    IN  push(st2, session, Entry("human-escalation-response", "system", NoId, EscalationAnswer))

handleMessage_UnknownIsChat(st, clientId, message, r) ==
    IF clientId \notin DOMAIN st.clients \/ clientId \notin DOMAIN st.sessions THEN st
    ELSE
    LET st1 == push([st EXCEPT !.clients[clientId].lastActivity = st.now],
                    st.sessions[clientId],
                    Entry(message.type, "user", message.messageId, QueryOf(message)))
    IN  CASE message.json = "null" -> sendError(st1, clientId, "Invalid message format")
          [] message.type = "feedback" -> handleFeedbackMessage(st1, clientId, message)
          [] message.type = "human-escalation" -> handleHumanEscalation(st1, clientId, message)
          [] message.type = "ping" -> sendMessage(st1, clientId, Envelope("pong", "", NoId))
          [] OTHER -> handleChatMessage(st1, clientId, message, r)

handleMessage_EntryOnlyWhenHandled(st, clientId, message, r) ==
    IF clientId \notin DOMAIN st.clients \/ clientId \notin DOMAIN st.sessions THEN st
    ELSE
    LET st0 == [st EXCEPT !.clients[clientId].lastActivity = st.now]
        st1 == push(st0, st.sessions[clientId],
                    Entry(message.type, "user", message.messageId, QueryOf(message)))
    IN  CASE message.json = "null" -> sendError(st0, clientId, "Invalid message format")
          [] message.type = "chat" ->
                IF validateMessage(message).valid
                THEN handleChatMessage(st1, clientId, message, r)
                ELSE handleChatMessage(st0, clientId, message, r)
          [] message.type = "feedback" -> handleFeedbackMessage(st1, clientId, message)
          [] message.type = "human-escalation" -> handleHumanEscalation(st1, clientId, message)
          [] message.type = "ping" -> sendMessage(st1, clientId, Envelope("pong", "", NoId))
          [] OTHER -> sendError(st0, clientId, "Unknown message type")

(* WebSocketServer.handleMessage; a non-object (null) makes message.type throw *)
handleMessage(st, clientId, message, r) ==
    IF clientId \notin DOMAIN st.clients \/ clientId \notin DOMAIN st.sessions THEN st
    ELSE
    LET st1 == push([st EXCEPT !.clients[clientId].lastActivity = st.now],
                    st.sessions[clientId],
                    Entry(message.type, "user", message.messageId, QueryOf(message)))
    IN  CASE message.json = "null" -> sendError(st1, clientId, "Invalid message format")
          [] message.type = "chat" -> handleChatMessage(st1, clientId, message, r)
          [] message.type = "feedback" -> handleFeedbackMessage(st1, clientId, message)
          [] message.type = "human-escalation" -> handleHumanEscalation(st1, clientId, message)
          [] message.type = "ping" -> sendMessage(st1, clientId, Envelope("pong", "", NoId))
          [] OTHER -> sendError(st1, clientId, "Unknown message type")

onMessage_DropsOnMalformed(st, clientId, frame, r) ==
    IF frame.json = "malformed"
    THEN cleanupClient(sendError(st, clientId, "Invalid message format"), clientId)
    ELSE handleMessage(st, clientId, frame, r)

(* ws.on('message'): JSON.parse, then handleMessage *)
onMessage(st, clientId, frame, r) ==
    IF frame.json = "malformed" THEN sendError(st, clientId, "Invalid message format")
    ELSE handleMessage(st, clientId, frame, r)

Frames ==
    {Malformed, PingFrame, UnknownFrame, EscalationFrame,
     ChatFrame(Str(0, 5, 0)), ChatFrame(Str(0, 0, 0)), ChatFrame(Num(7)),
     ChatFrame(Str(0, MaxQueryLength + 1, 0))}

(* A frame arrives on the open socket s *)
Receive(s, frame, r) ==
    /\ Running
    /\ s \in 1..nsock
    /\ ws[s].readyState = "OPEN"
    /\ nframes + 1 \in FrameNumbers
    /\ nsock + nframes < MaxEvents
    /\ nframes' = nframes + 1
    /\ Commit(onMessage(Cur, ws[s].cid, frame, r))
    /\ last' = Event("message", s, frame)
    /\ UNCHANGED <<now, nsock, stream, proc>>

----------------------------------------------------------------------------
(* The awaits of a chat flow resume *)

(* What the awaited axios call settles with *)
Response(kind) == [settled |-> "response", kind |-> kind, code |-> "", detail |-> ""]
Failure(code, detail) == [settled |-> "error", kind |-> "", code |-> code, detail |-> detail]

Outcomes ==
    {Response("string"), Response("number"), Response("nodata"),
     Failure("ECONNREFUSED", ""), Failure("ECONNABORTED", ""), Failure("ENOTFOUND", ""),
     Failure("ERR_BAD_RESPONSE", "AI service error")}

AnswerText == "answer"
AnswerValue == Str(0, 6, 0)

(* MessageHandler.callPythonAIAPI's catch block *)
upstreamErrorMessage(error) ==
    IF error.code = "ECONNREFUSED"
    THEN "AI service is currently unavailable. Please try again later."
    ELSE IF error.code = "TIMEOUT" \/ error.code = "ENOTFOUND"
    THEN "Request timeout - please try again"
    ELSE IF error.detail # "" THEN "AI service error: " \o error.detail
    ELSE "Failed to connect to AI service"

(* await storeQuestion(...) settles either way; then callPythonAIAPI starts *)
afterStoreQuestion(st, i) == callPythonAIAPI(st, i)

afterAxios_AbortsOthers(st, i, outcome) ==
    LET f == st.flows[i] IN
    IF outcome.settled = "error" \/ outcome.kind # "string"
    THEN [sendError(st, f.clientId, upstreamErrorMessage(
                        IF outcome.settled = "error" THEN outcome ELSE Failure("", "")))
            EXCEPT !.flows = [j \in DOMAIN st.flows |->
                                IF st.flows[j].clientId = f.clientId
                                THEN [st.flows[j] EXCEPT !.pc = "done"]
                                ELSE st.flows[j]]]
    ELSE [call(sendMessage(st, f.clientId, Envelope("ai-response", AnswerText, f.messageId)),
               i, "updateAIResponse") EXCEPT !.flows[i].pc = "updateAIResponse"]

afterAxios_DropsOnFailure(st, i, outcome) ==
    LET f == st.flows[i] IN
    IF outcome.settled = "error" \/ outcome.kind # "string"
    THEN [cleanupClient(sendError(st, f.clientId, upstreamErrorMessage(outcome)), f.clientId)
            EXCEPT !.flows[i].pc = "done"]
    ELSE [call(sendMessage(st, f.clientId, Envelope("ai-response", AnswerText, f.messageId)),
               i, "updateAIResponse") EXCEPT !.flows[i].pc = "updateAIResponse"]

afterAxios_NoTypeCheck(st, i, outcome) ==
    LET f == st.flows[i] IN
    IF outcome.settled = "error"
    THEN [sendError(st, f.clientId, upstreamErrorMessage(outcome)) EXCEPT !.flows[i].pc = "done"]
    ELSE [call(sendMessage(st, f.clientId, Envelope("ai-response", AnswerText, f.messageId)),
               i, "updateAIResponse") EXCEPT !.flows[i].pc = "updateAIResponse"]

(* callPythonAIAPI from the axios call settling to its next await or its end *)
afterAxios(st, i, outcome) ==
    LET f == st.flows[i] IN
    IF outcome.settled = "error"
    THEN [sendError(st, f.clientId, upstreamErrorMessage(outcome)) EXCEPT !.flows[i].pc = "done"]
    ELSE IF outcome.kind # "string"
    THEN [sendError(st, f.clientId, upstreamErrorMessage(Failure("", "")))
            EXCEPT !.flows[i].pc = "done"]
    ELSE
    LET st1 == sendMessage(st, f.clientId, Envelope("ai-response", AnswerText, f.messageId))
    IN  IF AnalyticsAvailable
        THEN [call(st1, i, "updateAIResponse") EXCEPT !.flows[i].pc = "updateAIResponse"]
        ELSE [push(st1, f.session, Entry("ai-response", "assistant", f.messageId, AnswerValue))
                EXCEPT !.flows[i].pc = "done"]

afterUpdateAIResponse_RestoresSession(st, i) ==
    LET f == st.flows[i] IN
    [push(st, f.session, Entry("ai-response", "assistant", f.messageId, AnswerValue))
        EXCEPT !.flows[i].pc = "done",
               !.sessions = MapSet(@, f.clientId, f.session)]

afterUpdateAIResponse_WaitsForEarlier(st, i) ==
    LET f == st.flows[i] IN
    IF \E j \in 1..(i - 1) : st.flows[j].session = f.session /\ st.flows[j].pc # "done"
    THEN [st EXCEPT !.flows[i].pc = "done"]
    ELSE [push(st, f.session, Entry("ai-response", "assistant", f.messageId, AnswerValue))
            EXCEPT !.flows[i].pc = "done"]

afterUpdateAIResponse_Surfaces(st, i) ==
    [sendError(st, st.flows[i].clientId, upstreamErrorMessage(Failure("", "")))
        EXCEPT !.flows[i].pc = "done"]

(* await updateAIResponse(...) settles either way; the assistant message is stored *)
afterUpdateAIResponse(st, i) ==
    LET f == st.flows[i] IN
    [push(st, f.session, Entry("ai-response", "assistant", f.messageId, AnswerValue))
        EXCEPT !.flows[i].pc = "done"]

StoreQuestionSettles(i, ok) ==
    /\ Running
    /\ i \in 1..Len(flows)
    /\ flows[i].pc = "storeQuestion"
    /\ Commit(afterStoreQuestion(Cur, i))
    /\ last' = Event("storeQuestion", i, ok)
    /\ UNCHANGED <<now, nsock, nframes, stream, proc>>

AxiosSettles(i, outcome) ==
    /\ Running
    /\ i \in 1..Len(flows)
    /\ flows[i].pc = "axios"
    /\ Commit(afterAxios(Cur, i, outcome))
    /\ last' = Event("axios", i, outcome)
    /\ UNCHANGED <<now, nsock, nframes, stream, proc>>

UpdateAIResponseSettles(i, ok) ==
    /\ Running
    /\ i \in 1..Len(flows)
    /\ flows[i].pc = "updateAIResponse"
    /\ Commit(afterUpdateAIResponse(Cur, i))
    /\ last' = Event("updateAIResponse", i, ok)
    /\ UNCHANGED <<now, nsock, nframes, stream, proc>>

----------------------------------------------------------------------------
(* The transport of socket s stops being open (the peer's close frame, or the *)
(* TCP connection ending): the ws library moves it to CLOSING                *)
TransportCloses(s) ==
    /\ Running
    /\ s \in 1..nsock
    /\ ws[s].readyState = "OPEN"
    /\ ws' = [ws EXCEPT ![s].readyState = "CLOSING"]
    /\ last' = Event("closing", s, <<>>)
    /\ UNCHANGED <<now, nsock, clients, sessions, sessObj, outbox, flows, nframes, stream, proc>>

(* ws.on('close'): the socket is CLOSED and the handler runs cleanupClient *)
onClose(st, s) ==
    cleanupClient([st EXCEPT !.ws[s].readyState = "CLOSED"], st.ws[s].cid)

CloseEvent(s) ==
    /\ Running
    /\ s \in 1..nsock
    /\ ws[s].readyState = "CLOSING"
    /\ Commit(onClose(Cur, s))
    /\ last' = Event("close", s, <<>>)
    /\ UNCHANGED <<now, nsock, nframes, stream, proc>>

(* Date.now() advances *)
Tick ==
    /\ Running
    /\ now < MaxTime
    /\ now' = now + 1
    /\ last' = Event("tick", 0, <<>>)
    /\ UNCHANGED <<nsock, ws, clients, sessions, sessObj, outbox, flows, nframes, stream, proc>>

(* What the awaited analyticsService.updateFeedback settles with: its result, or *)
(* an Error with a message, or one without                                      *)
FeedbackOutcomes ==
    {[ok |-> TRUE, message |-> ""],
     [ok |-> FALSE, message |-> "Analytics record not found for messageId"],
     [ok |-> FALSE, message |-> ""]}

(* WebSocketServer.handleFeedbackMessage from updateFeedback settling to its end *)
afterUpdateFeedback(st, i, outcome) ==
    LET f == st.flows[i] IN
    IF outcome.ok
    THEN [sendMessage(st, f.clientId,
                      [type |-> "feedback-confirmation",
                       message |-> "Feedback submitted successfully",
                       messageId |-> f.messageId,
                       feedbackType |-> f.feedbackType,
                       positiveFeedback |-> (f.feedbackType = "positive"),
                       negativeFeedback |-> (f.feedbackType # "positive")])
            EXCEPT !.flows[i].pc = "done"]
    ELSE [sendError(st, f.clientId,
                    IF outcome.message # "" THEN outcome.message ELSE "Failed to submit feedback")
            EXCEPT !.flows[i].pc = "done"]

UpdateFeedbackSettles(i, outcome) ==
    /\ Running
    /\ i \in 1..Len(flows)
    /\ flows[i].pc = "updateFeedback"
    /\ Commit(afterUpdateFeedback(Cur, i, outcome))
    /\ last' = Event("updateFeedback", i, outcome)
    /\ UNCHANGED <<now, nsock, nframes, stream, proc>>

(* ws.on('error'): the handler runs cleanupClient; the ws library has moved the *)
(* socket to CLOSING before it emits 'error'                                    *)
onError(st, s) ==
    cleanupClient([st EXCEPT !.ws[s].readyState = "CLOSING"], st.ws[s].cid)

ErrorEvent(s) ==
    /\ Running
    /\ s \in 1..nsock
    /\ ws[s].readyState = "OPEN"
    /\ Commit(onError(Cur, s))
    /\ last' = Event("error", s, <<>>)
    /\ UNCHANGED <<now, nsock, nframes, stream, proc>>

healthCheck_KeepsClosed(st) ==
    LET open == {c \in DOMAIN st.clients : st.ws[st.clients[c].ws].readyState = "OPEN"}
    IN  [st EXCEPT
            !.ws = [s \in DOMAIN st.ws |->
                      IF \E c \in open : st.clients[c].ws = s
                      THEN [st.ws[s] EXCEPT !.pings = @ + 1]
                      ELSE st.ws[s]]]

(* The callback startHealthCheck hands to setInterval: a ping for every entry of *)
(* the registry whose socket is OPEN, cleanupClient for every other entry        *)
healthCheck(st) ==
    LET open == {c \in DOMAIN st.clients : st.ws[st.clients[c].ws].readyState = "OPEN"}
    IN  [st EXCEPT
            !.clients = [c \in open |-> st.clients[c]],
            !.ws = [s \in DOMAIN st.ws |->
                      IF \E c \in open : st.clients[c].ws = s
                      THEN [st.ws[s] EXCEPT !.pings = @ + 1]
                      ELSE st.ws[s]]]

(* The heartbeat ticks a behaviour can hold, by number *)
SweepNumbers == {1, 2}

HealthCheck ==
    /\ Running
    /\ proc.sweeps + 1 \in SweepNumbers
    /\ proc' = [proc EXCEPT !.sweeps = @ + 1]
    /\ Commit(healthCheck(Cur))
    /\ last' = Event("heartbeat", 0, Cardinality(DOMAIN clients \ DOMAIN clients'))
    /\ UNCHANGED <<now, nsock, nframes, stream>>

cleanup_KeepsSessions(st) ==
    [st EXCEPT
        !.ws = [s \in DOMAIN st.ws |->
                  IF /\ \E c \in DOMAIN st.clients : st.clients[c].ws = s
                     /\ st.ws[s].readyState = "OPEN"
                  THEN [st.ws[s] EXCEPT !.readyState = "CLOSING"]
                  ELSE st.ws[s]],
        !.clients = <<>>]

(* WebSocketServer.cleanup *)
cleanup(st) ==
    [st EXCEPT
        !.ws = [s \in DOMAIN st.ws |->
                  IF /\ \E c \in DOMAIN st.clients : st.clients[c].ws = s
                     /\ st.ws[s].readyState = "OPEN"
                  THEN [st.ws[s] EXCEPT !.readyState = "CLOSING"]
                  ELSE st.ws[s]],
        !.clients = <<>>,
        !.sessions = <<>>]

(* gracefulShutdown is an async function: what setupProcessHandlers keeps as *)
(* shutdownHandler is the Promise it returns, not the function inside it     *)
ShutdownHandlerIsFunction == FALSE

ShutdownSteps == <<"cleanup", "server.close", "disconnect">>

(* process.on('SIGTERM' / 'SIGINT', (signal) => shutdownHandler(signal)): calling *)
(* a Promise throws a TypeError; the 'uncaughtException' listener calls it again, *)
(* throws in turn, and the process dies with nothing shut down                   *)
Signal(signal) ==
    /\ Running
    /\ IF ShutdownHandlerIsFunction
       THEN /\ Commit(cleanup(Cur))
            /\ proc' = [proc EXCEPT !.pc = "exited", !.log = ShutdownSteps]
       ELSE /\ proc' = [proc EXCEPT !.pc = "crashed"]
            /\ UNCHANGED <<ws, clients, sessions, sessObj, outbox, flows>>
    /\ last' = Event("signal", 0, signal)
    /\ UNCHANGED <<now, nsock, nframes, stream>>

Signals == {"SIGTERM", "SIGINT"}

(* Frames of every type the gateway routes *)
LifecycleFrames ==
    {Malformed, NullFrame, PingFrame, UnknownFrame, EscalationFrame, LongEscalationFrame,
     ChatFrame(Str(0, 5, 0)), ChatFrame(Str(0, 0, 0)),
     FeedbackFrame(<<"msg", "i", 0>>, "positive"), FeedbackFrame(<<"msg", "i", 0>>, "neutral"),
     FeedbackFrame(<<"msg", "i", 0>>, "negative"), FeedbackFrame(<<"msg", "i", 0>>, ""),
     FeedbackFrame(NoId, "positive")}

NoStream == [text |-> <<>>, rest |-> <<>>, buffer |-> <<>>, out |-> <<>>,
             pc |-> "none", chunks |-> 0, failure |-> ""]

GatewayInit ==
    /\ now = 0
    /\ nsock = 0
    /\ ws = [s \in SocketIds |-> NoSocket]
    /\ clients = <<>>
    /\ sessions = <<>>
    /\ sessObj = [s \in SocketIds |-> NoSession]
    /\ outbox = [s \in SocketIds |-> <<>>]
    /\ flows = <<>>
    /\ nframes = 0
    /\ last = Event("init", 0, <<>>)
    /\ proc = [pc |-> "running", sweeps |-> 0, log |-> <<>>]

Init == GatewayInit /\ stream = NoStream

(* The handshakes the gateway specification draws from: one admitted, one refused *)
FewRequests ==
    {[queryToken |-> Param(<<"jwtA">>), authorization |-> NoParam],
     [queryToken |-> NoParam, authorization |-> Param(<<"Bearer ", "expired">>)]}

Next ==
    \/ \E req \in FewRequests : UpgradeRefused(req)
    \/ \E req \in FewRequests, r \in RandomParts : UpgradeAccepted(req, r)
    \/ \E s \in SocketIds, frame \in Frames, r \in RandomParts : Receive(s, frame, r)
    \/ \E i \in FrameNumbers, ok \in BOOLEAN : StoreQuestionSettles(i, ok)
    \/ \E i \in FrameNumbers, outcome \in Outcomes : AxiosSettles(i, outcome)
    \/ \E i \in FrameNumbers, ok \in BOOLEAN : UpdateAIResponseSettles(i, ok)
    \/ \E s \in SocketIds : TransportCloses(s)
    \/ \E s \in SocketIds : CloseEvent(s)

Spec == Init /\ [][Next]_vars

(* Handshakes, the clock and closes only *)
NextHandshake ==
    \/ \E req \in Requests : UpgradeRefused(req)
    \/ \E req \in Requests, r \in RandomParts : UpgradeAccepted(req, r)
    \/ \E s \in SocketIds : TransportCloses(s)
    \/ \E s \in SocketIds : CloseEvent(s)
    \/ Tick

SpecHandshake == Init /\ [][NextHandshake]_vars

(* The first frame of a behaviour arrives on the open socket s *)
ReceiveFirst(s, frame, r) == nframes = 0 /\ Receive(s, frame, r)

(* Every handler of the gateway: frames of every type, closes, errors, the *)
(* heartbeat and the termination signals                                   *)
NextLifecycle ==
    \/ \E req \in FewRequests, r \in RandomParts : UpgradeAccepted(req, r)
    \/ \E s \in SocketIds, frame \in LifecycleFrames, r \in RandomParts :
          ReceiveFirst(s, frame, r)
    \/ \E i \in FrameNumbers, ok \in BOOLEAN : StoreQuestionSettles(i, ok)
    \/ \E i \in FrameNumbers, outcome \in Outcomes : AxiosSettles(i, outcome)
    \/ \E i \in FrameNumbers, ok \in BOOLEAN : UpdateAIResponseSettles(i, ok)
    \/ \E i \in FrameNumbers, outcome \in FeedbackOutcomes : UpdateFeedbackSettles(i, outcome)
    \/ \E s \in SocketIds : TransportCloses(s)
    \/ \E s \in SocketIds : CloseEvent(s)
    \/ \E s \in SocketIds : ErrorEvent(s)
    \/ HealthCheck
    \/ \E signal \in Signals : Signal(signal)

SpecLifecycle == Init /\ [][NextLifecycle]_vars

(* ws.on('pong'): the registry entry of the handler's clientId, if there is one, *)
(* gets lastActivity = new Date()                                               *)
onPong(st, clientId) ==
    IF clientId \in DOMAIN st.clients
    THEN [st EXCEPT !.clients[clientId].lastActivity = st.now]
    ELSE st

(* The peer answers a ping of the heartbeat *)
Pong(s) ==
    /\ Running
    /\ s \in 1..nsock
    /\ ws[s].readyState = "OPEN"
    /\ ws[s].pings > 0
    /\ Commit(onPong(Cur, ws[s].cid))
    /\ last' = Event("pong", s, <<>>)
    /\ UNCHANGED <<now, nsock, nframes, stream, proc>>

(* The clock, one frame of any type, heartbeat pings and their pongs *)
NextActivity ==
    \/ \E req \in FewRequests, r \in RandomParts : UpgradeAccepted(req, r)
    \/ \E s \in SocketIds, frame \in LifecycleFrames, r \in RandomParts :
          ReceiveFirst(s, frame, r)
    \/ HealthCheck
    \/ \E s \in SocketIds : Pong(s)
    \/ Tick

SpecActivity == Init /\ [][NextActivity]_vars

(* The invocations of cleanup() a behaviour can hold, by number *)
CleanupCalls == {1, 2}

(* wsServer.cleanup() invoked on the WebSocketServer object: the method is   *)
(* synchronous and returns; the heartbeat timer, the 'connection' listener   *)
(* and the socket handlers are left as they were                             *)
Cleanup ==
    /\ Running
    /\ Len(proc.log) + 1 \in CleanupCalls
    /\ Commit(cleanup(Cur))
    /\ proc' = [proc EXCEPT !.log = Append(@, "cleanup")]
    /\ last' = Event("cleanup", 0, Cardinality(DOMAIN clients))
    /\ UNCHANGED <<now, nsock, nframes, stream>>

(* The WebSocketServer object with its cleanup method: handshakes, one chat *)
(* and its flow, closes, heartbeat ticks and invocations of cleanup()       *)
NextShutdown ==
    \/ \E req \in FewRequests, r \in RandomParts : UpgradeAccepted(req, r)
    \/ \E s \in SocketIds, r \in RandomParts : ReceiveFirst(s, ChatFrame(Str(0, 5, 0)), r)
    \/ \E i \in FrameNumbers, ok \in BOOLEAN : StoreQuestionSettles(i, ok)
    \/ \E i \in FrameNumbers, outcome \in Outcomes : AxiosSettles(i, outcome)
    \/ \E i \in FrameNumbers, ok \in BOOLEAN : UpdateAIResponseSettles(i, ok)
    \/ \E s \in SocketIds : TransportCloses(s)
    \/ \E s \in SocketIds : CloseEvent(s)
    \/ HealthCheck
    \/ Cleanup

SpecShutdown == Init /\ [][NextShutdown]_vars

(* The values a query field takes around the limits of validateMessage *)
BoundaryValues ==
    {Undefined, Num(0), Num(7), Str(0, 0, 0), Str(2, 0, 0), Str(0, 1, 0), Str(1, 1, 1),
     Str(0, MaxQueryLength, 0), Str(0, MaxQueryLength + 1, 0),
     Str(0, MaxQueryLength - 1, 1), Str(1, MaxQueryLength - 1, 1), Str(1, MaxQueryLength, 0)}

BoundaryFrames ==
    {Frame("object", "chat", content, message, query) :
        content \in {Undefined, Str(0, 0, 0)},
        message \in BoundaryValues,
        query \in {Undefined, Str(0, 3, 0)}}

(* One chat frame with its query at a limit, and the flow it starts *)
NextValidate ==
    \/ \E req \in FewRequests, r \in RandomParts : UpgradeAccepted(req, r)
    \/ \E s \in SocketIds, frame \in BoundaryFrames, r \in RandomParts :
          ReceiveFirst(s, frame, r)
    \/ \E i \in FrameNumbers, ok \in BOOLEAN : StoreQuestionSettles(i, ok)
    \/ \E i \in FrameNumbers, outcome \in Outcomes : AxiosSettles(i, outcome)
    \/ \E s \in SocketIds : TransportCloses(s)

SpecValidate == Init /\ [][NextValidate]_vars

----------------------------------------------------------------------------
(* Streaming mode: MessageHandler.streamFromFastAPI and processStreamLine.   *)
(* A text is a sequence of one-character strings; the upstream body is a     *)
(* sequence of bytes, an ASCII byte being written as its character and the   *)
(* two bytes of U+00E9 as "C3", "A9".                                        *)

Whitespace == {" ", "\t", "\r", "\n"}

RECURSIVE TrimStart(_)
TrimStart(s) == IF s # <<>> /\ Head(s) \in Whitespace THEN TrimStart(Tail(s)) ELSE s

RECURSIVE TrimEnd(_)
TrimEnd(s) ==
    IF s # <<>> /\ s[Len(s)] \in Whitespace THEN TrimEnd(SubSeq(s, 1, Len(s) - 1)) ELSE s

(* String.prototype.trim on a text *)
TrimText(s) == TrimEnd(TrimStart(s))

StartsWith(s, p) == Len(s) >= Len(p) /\ SubSeq(s, 1, Len(p)) = p
EndsWith(s, p) == Len(s) >= Len(p) /\ SubSeq(s, Len(s) - Len(p) + 1, Len(s)) = p

(* Buffer.prototype.toString(): UTF-8 decoding of one chunk on its own.  A lead *)
(* byte without its continuation byte, and a continuation byte without its lead *)
(* byte, each decode to U+FFFD; the continuation byte of a pair yields nothing  *)
(* of its own ("").                                                             *)
Utf8Decode(bytes) ==
    LET decoded ==
            [i \in 1..Len(bytes) |->
                IF bytes[i] = "C3"
                THEN IF i < Len(bytes) /\ bytes[i + 1] = "A9" THEN "U+00E9" ELSE "U+FFFD"
                ELSE IF bytes[i] = "A9"
                THEN IF i > 1 /\ bytes[i - 1] = "C3" THEN "" ELSE "U+FFFD"
                ELSE bytes[i]]
        IsCharacter(c) == c # ""
    IN  SelectSeq(decoded, IsCharacter)

(* String.prototype.split('\n') *)
RECURSIVE SplitLines(_)
SplitLines(s) ==
    IF \A i \in 1..Len(s) : s[i] # "\n" THEN <<s>>
    ELSE LET i == CHOOSE k \in 1..Len(s) : s[k] = "\n" /\ \A j \in 1..(k - 1) : s[j] # "\n"
         IN <<SubSeq(s, 1, i - 1)>> \o SplitLines(SubSeq(s, i + 1, Len(s)))

DataPrefix == <<"d", "a", "t", "a", ":", " ">>
Done == <<"[", "D", "O", "N", "E", "]">>
Hello == <<"h", "e", "l", "l", "o">>
JsonNull == <<"n", "u", "l", "l">>
JsonNumber == <<"5">>
JsonNoChoices == <<"{", "}">>
JsonEmptyChoices == <<"{", "\"", "c", "h", "o", "i", "c", "e", "s", "\"", ":", "[", "]", "}">>
JsonNoDelta == <<"{", "\"", "c", "h", "o", "i", "c", "e", "s", "\"", ":", "[", "{", "}", "]", "}">>
JsonNoContent ==
    <<"{", "\"", "c", "h", "o", "i", "c", "e", "s", "\"", ":", "[", "{", "\"", "d",
      "e", "l", "t", "a", "\"", ":", "{", "}", "}", "]", "}">>
ContentOpen ==
    <<"{", "\"", "c", "h", "o", "i", "c", "e", "s", "\"", ":", "[", "{", "\"", "d",
      "e", "l", "t", "a", "\"", ":", "{", "\"", "c", "o", "n", "t", "e", "n", "t",
      "\"", ":", "\"">>
ContentClose == <<"\"", "}", "}", "]", "}">>

(* {"choices":[{"delta":{"content":"<content>"}}]} *)
JsonContent(content) == ContentOpen \o content \o ContentClose

(* What JSON.parse makes of a text: it throws a SyntaxError (ok = FALSE), or it *)
(* returns a value, kept as its shape and the string at choices[0].delta.content *)
Parsed(shape, content) == [ok |-> TRUE, shape |-> shape, content |-> content]
SyntaxError == [ok |-> FALSE, shape |-> "none", content |-> <<>>]

JSONparse(text) ==
    LET t == TrimText(text)
        inner == SubSeq(t, Len(ContentOpen) + 1, Len(t) - Len(ContentClose))
    IN  CASE t = JsonNull -> Parsed("null", <<>>)
          [] t = JsonNumber -> Parsed("number", <<>>)
          [] t = JsonNoChoices -> Parsed("noChoices", <<>>)
          [] t = JsonEmptyChoices -> Parsed("emptyChoices", <<>>)
          [] t = JsonNoDelta -> Parsed("noDelta", <<>>)
          [] t = JsonNoContent -> Parsed("noContent", <<>>)
          [] /\ Len(t) >= Len(ContentOpen) + Len(ContentClose)
             /\ StartsWith(t, ContentOpen)
             /\ EndsWith(t, ContentClose)
             /\ \A i \in 1..Len(inner) : inner[i] \notin {"\"", "\\", "\n", "\r", "\t"}
             -> Parsed("content", inner)
          [] OTHER -> SyntaxError

StreamMessageId == <<"msg", "i", 0>>

StreamEnvelope(type, token) == [type |-> type, messageId |-> StreamMessageId, token |-> token]

processStreamLine_DropsPlainText(out, rawLine) ==
    LET line == TrimText(rawLine) IN
    IF line = <<>> THEN out
    ELSE IF StartsWith(line, DataPrefix)
    THEN LET data == SubSeq(line, Len(DataPrefix) + 1, Len(line))
             parsed == JSONparse(data)
         IN  IF data = Done THEN out
             ELSE IF parsed.ok /\ parsed.shape = "content" /\ parsed.content # <<>>
             THEN Append(out, StreamEnvelope("stream-token", parsed.content))
             ELSE out
    ELSE out

processStreamLine_NoSentinel(out, rawLine) ==
    LET line == TrimText(rawLine) IN
    IF line = <<>> THEN out
    ELSE IF StartsWith(line, DataPrefix)
    THEN LET data == SubSeq(line, Len(DataPrefix) + 1, Len(line))
             parsed == JSONparse(data)
         IN  IF ~parsed.ok \/ parsed.shape \in {"null", "emptyChoices"}
             THEN Append(out, StreamEnvelope("stream-token", data))
             ELSE IF parsed.shape = "content" /\ parsed.content # <<>>
             THEN Append(out, StreamEnvelope("stream-token", parsed.content))
             ELSE out
    ELSE Append(out, StreamEnvelope("stream-token", line))

(* MessageHandler.processStreamLine: the envelopes handed to sendMessage, appended *)
(* to out.  `parsed.choices[0].delta` throws a TypeError for null and for an empty *)
(* choices array, and the catch around JSON.parse handles it as it does a          *)
(* SyntaxError.                                                                    *)
processStreamLine(out, rawLine) ==
    LET line == TrimText(rawLine) IN
    IF line = <<>> THEN out
    ELSE IF StartsWith(line, DataPrefix)
    THEN LET data == SubSeq(line, Len(DataPrefix) + 1, Len(line))
             parsed == JSONparse(data)
         IN  IF data = Done THEN out
             ELSE IF ~parsed.ok \/ parsed.shape \in {"null", "emptyChoices"}
             THEN Append(out, StreamEnvelope("stream-token", data))
             ELSE IF parsed.shape = "content" /\ parsed.content # <<>>
             THEN Append(out, StreamEnvelope("stream-token", parsed.content))
             ELSE out
    ELSE Append(out, StreamEnvelope("stream-token", line))

(* for (const line of lines) this.processStreamLine(line, ...) *)
RECURSIVE processLines(_, _)
processLines(out, lines) ==
    IF lines = <<>> THEN out
    ELSE processLines(processStreamLine(out, Head(lines)), Tail(lines))

(* The state of one relay: the upstream body, the bytes not yet delivered, the *)
(* buffer, the envelopes handed to sendMessage for the client, and the code of *)
(* the error the axios call was rejected with                                 *)
Relay(text, pc) ==
    [text |-> text, rest |-> text, buffer |-> <<>>, out |-> <<>>, pc |-> pc, chunks |-> 0,
     failure |-> ""]

(* await axios(...) returned the response: stream-start is sent *)
onResponse(st) ==
    [st EXCEPT !.out = Append(@, StreamEnvelope("stream-start", <<>>)), !.pc = "open"]

streamErrorMessage_AlwaysGeneric(code) == "Failed to connect to AI service"

(* the catch block of streamFromFastAPI *)
streamErrorMessage(code) ==
    IF code = "ECONNREFUSED" THEN "AI service is currently unavailable"
    ELSE IF code = "TIMEOUT" THEN "Request timeout - please try again"
    ELSE "Failed to connect to AI service"

onRequestError(st, code) ==
    [st EXCEPT !.out = Append(@, Envelope("error", streamErrorMessage(code), NoId)),
               !.pc = "failed",
               !.failure = code]

(* response.data.on('data') *)
onData(st, chunk) ==
    LET buffer == st.buffer \o Utf8Decode(chunk)
        lines == SplitLines(buffer)
    IN  [st EXCEPT !.buffer = lines[Len(lines)],
                   !.out = processLines(@, SubSeq(lines, 1, Len(lines) - 1)),
                   !.chunks = IF @ < 2 THEN @ + 1 ELSE @]

onEnd_EndBeforeFlush(st) ==
    LET ended == Append(st.out, StreamEnvelope("stream-end", <<>>))
    IN  [st EXCEPT !.out = IF TrimText(st.buffer) # <<>> THEN processStreamLine(ended, st.buffer)
                            ELSE ended,
                   !.pc = "ended"]

(* response.data.on('end') *)
onEnd(st) ==
    LET flushed == IF TrimText(st.buffer) # <<>> THEN processStreamLine(st.out, st.buffer)
                   ELSE st.out
    IN  [st EXCEPT !.out = Append(flushed, StreamEnvelope("stream-end", <<>>)), !.pc = "ended"]

(* response.data.on('error') *)
onStreamError(st) ==
    [st EXCEPT !.out = Append(@, Envelope("error", "Stream error occurred", NoId)),
               !.pc = "errored"]

GatewayUnchanged ==
    UNCHANGED <<now, nsock, ws, clients, sessions, sessObj, outbox, flows, nframes, last,
                proc>>

StreamResponds ==
    /\ stream.pc = "request"
    /\ stream' = onResponse(stream)
    /\ GatewayUnchanged

StreamRequestFails(code) ==
    /\ stream.pc = "request"
    /\ stream' = onRequestError(stream, code)
    /\ GatewayUnchanged

(* the next bytes of the body, any number of them, arrive as one chunk *)
StreamData ==
    /\ stream.pc = "open"
    /\ \E k \in 1..Len(stream.rest) :
          stream' = [onData(stream, SubSeq(stream.rest, 1, k)) EXCEPT
                        !.rest = SubSeq(stream.rest, k + 1, Len(stream.rest))]
    /\ GatewayUnchanged

StreamEnd ==
    /\ stream.pc = "open"
    /\ stream.rest = <<>>
    /\ stream' = onEnd(stream)
    /\ GatewayUnchanged

StreamError ==
    /\ stream.pc = "open"
    /\ stream' = onStreamError(stream)
    /\ GatewayUnchanged

(* The lines an upstream body is made of, as bytes *)
BodyLines ==
    {DataPrefix \o JsonContent(<<"H", "i">>),
     DataPrefix \o JsonContent(<<"C3", "A9">>),
     DataPrefix \o Done,
     Hello,
     Hello \o <<"\r">>,
     <<>>}

LineCounts == {1, 2}

RECURSIVE JoinLines(_)
JoinLines(lines) ==
    IF Len(lines) = 1 THEN lines[1]
    ELSE lines[1] \o <<"\n">> \o JoinLines(Tail(lines))

(* Bodies of one or two lines, with and without a final newline *)
Bodies ==
    LET joined == {JoinLines(lines) : lines \in UNION {[1..n -> BodyLines] : n \in LineCounts}}
    IN  joined \cup {body \o <<"\n">> : body \in joined}

RequestErrorCodes == {"ECONNREFUSED", "ECONNABORTED", "ERR_BAD_RESPONSE"}

InitStream == GatewayInit /\ stream \in {Relay(body, "request") : body \in Bodies}

NextStream ==
    \/ StreamResponds
    \/ \E code \in RequestErrorCodes : StreamRequestFails(code)
    \/ StreamData
    \/ StreamEnd
    \/ StreamError

SpecStream == InitStream /\ [][NextStream]_vars

(* One complete stream line given to processStreamLine *)
LinePayloads ==
    {Done, Hello, <<>>, <<" ">> \o Done,
     JsonNull, JsonNumber, JsonNoChoices, JsonEmptyChoices, JsonNoDelta, JsonNoContent,
     JsonContent(<<>>), JsonContent(<<"H", "i">>), JsonContent(<<"U+00E9">>)}

StreamLines ==
    {lead \o prefix \o payload \o trail :
        lead \in {<<>>, <<" ", " ">>},
        prefix \in {<<>>, DataPrefix},
        payload \in LinePayloads,
        trail \in {<<>>, <<"\r">>}}

ProcessLine ==
    /\ stream.pc = "line"
    /\ stream' = [stream EXCEPT !.out = processStreamLine(@, stream.text), !.pc = "processed"]
    /\ GatewayUnchanged

InitLine == GatewayInit /\ stream \in {Relay(line, "line") : line \in StreamLines}

NextLine == ProcessLine

SpecLine == InitLine /\ [][NextLine]_vars

----------------------------------------------------------------------------
(* Properties of the handshake and of frame routing *)

(* socket s is the one the registry holds under the clientId of its handlers *)
Registered(s) ==
    /\ ws[s].cid \in DOMAIN clients
    /\ clients[ws[s].cid].ws = s

Opened == {s \in SocketIds : s <= nsock}

RECURSIVE CountType(_, _)
CountType(envelopes, type) ==
    IF envelopes = <<>> THEN 0
    ELSE (IF Head(envelopes).type = type THEN 1 ELSE 0) + CountType(Tail(envelopes), type)

(* the envelopes a step added to socket s *)
Added(s) == SubSeq(outbox'[s], Len(outbox[s]) + 1, Len(outbox'[s]))

OthersUntouched(s) == \A t \in SocketIds \ {s} : outbox'[t] = outbox[t]

(* C1: a handshake that carries no credential, or whose credential verifyToken
   rejects, changes neither the registry nor the session map and sends nothing;
   and every handshake either creates both the Connection and the Session of
   the new socket or creates nothing. *)
C1_RefusedHandshakeCreatesNothing ==
    [][last'.op = "upgrade" =>
        LET req == last'.arg.req
            refused == \/ (~req.queryToken.present /\ ~req.authorization.present)
                       \/ verifyTokenThrows(ExtractToken(req).text)
            nothing == UNCHANGED <<nsock, ws, clients, sessions, sessObj, outbox, flows>>
        IN /\ refused => nothing
           /\ \/ nothing
              \/ /\ ws'[nsock'].cid \in DOMAIN clients'
                 /\ ws'[nsock'].cid \in DOMAIN sessions'
    ]_vars

C1_Witness ==
    /\ last.op = "upgrade"
    /\ ~last.arg.accepted
    /\ last.arg.req.authorization.present
    /\ clients # <<>>

(* C2: an admitted handshake registers one Connection and one Session with no
   messages under the clientId just allocated, touches no other entry, and the
   new client is sent exactly one `connection` envelope; in every state the
   first envelope a client got is its only `connection` envelope, so it came
   before any reply to a frame. *)
C2_AdmittedHandshake ==
    /\ [][(last'.op = "upgrade" /\ last'.arg.accepted) =>
            LET s == last'.sock
                cid == ws'[s].cid
            IN /\ s = nsock + 1 /\ nsock' = s
               /\ ws[s].readyState = "NONE" /\ ws'[s].readyState = "OPEN"
               /\ DOMAIN clients' = DOMAIN clients \cup {cid}
               /\ DOMAIN sessions' = DOMAIN sessions \cup {cid}
               /\ clients'[cid].ws = s
               /\ sessions'[cid] = s
               /\ sessObj'[s].messages = <<>>
               /\ \A c \in DOMAIN clients \ {cid} : clients'[c] = clients[c]
               /\ \A c \in DOMAIN sessions \ {cid} : sessions'[c] = sessions[c]
               /\ \A t \in SocketIds \ {s} : sessObj'[t] = sessObj[t] /\ ws'[t] = ws[t]
               /\ outbox'[s] = <<Envelope("connection", "Connected to chatbot server", NoId)>>
               /\ OthersUntouched(s)
         ]_vars
    /\ [](\A s \in Opened :
            /\ outbox[s] # <<>>
            /\ Head(outbox[s]).type = "connection"
            /\ CountType(outbox[s], "connection") = 1)

C2_Witness ==
    /\ last.op = "upgrade"
    /\ last.arg.accepted
    /\ nsock = 2
    /\ Cardinality(DOMAIN clients) = 2
    /\ \E s \in Opened : Len(outbox[s]) > 1

(* C3: the clientIds handed to the handshakes of a behaviour are pairwise
   distinct. *)
C3_ClientIdsDistinct ==
    \A s, t \in Opened : s # t => ws[s].cid # ws[t].cid

(* C4: a frame that JSON.parse rejects, received on a registered connection,
   adds exactly one `error` envelope "Invalid message format" for the sender and
   changes nothing else: the connection stays registered and open, and every
   frame that could follow is handled (registry, sessions, flows, envelopes
   added) as it would have been without the malformed frame. *)
C4_MalformedFrame ==
    [][(last'.op = "message" /\ last'.arg.json = "malformed" /\ Registered(last'.sock)) =>
        LET s == last'.sock
            cid == ws[s].cid
        IN /\ Added(s) = <<Envelope("error", "Invalid message format", NoId)>>
           /\ OthersUntouched(s)
           /\ UNCHANGED <<ws, clients, sessions, sessObj, flows>>
           /\ ws'[s].readyState = "OPEN"
           /\ \A frame \in Frames, r \in RandomParts :
                LET with == onMessage(Cur', cid, frame, r)
                    without == onMessage(Cur, cid, frame, r)
                IN /\ with.clients = without.clients
                   /\ with.sessions = without.sessions
                   /\ with.sessObj = without.sessObj
                   /\ with.flows = without.flows
                   /\ SubSeq(with.outbox[s], Len(outbox'[s]) + 1, Len(with.outbox[s]))
                        = SubSeq(without.outbox[s], Len(outbox[s]) + 1, Len(without.outbox[s]))
    ]_vars

(* a valid chat frame was handled after a malformed frame on the same connection *)
C4_Witness ==
    /\ last.op = "message"
    /\ last.arg.type = "chat"
    /\ flows # <<>>
    /\ \E i \in 1..Len(outbox[last.sock]) :
          outbox[last.sock][i] = Envelope("error", "Invalid message format", NoId)
    /\ outbox[last.sock][Len(outbox[last.sock])].type = "typing"

(* C5: a chat frame received on a registered connection starts a flow (whose
   first awaits lead to the axios call to the AI backend) if and only if its
   query is a string whose length after trimming is between 1 and 2000; every
   other chat frame adds an `error` envelope for the sender. *)
C5_AcceptedIffTrimmedLengthInRange ==
    [][(/\ last'.op = "message"
        /\ last'.arg.json = "object"
        /\ last'.arg.type = "chat"
        /\ Registered(last'.sock)) =>
        LET s == last'.sock
            q == QueryOf(last'.arg)
            inRange == q.t = "string" /\ Length(Trim(q)) >= 1 /\ Length(Trim(q)) <= 2000
            accepted == /\ Len(flows') = Len(flows) + 1
                        /\ flows'[Len(flows')].pc \in {"storeQuestion", "axios"}
        IN /\ inRange <=> accepted
           /\ ~inRange => /\ flows' = flows
                          /\ \E k \in 1..Len(Added(s)) : Added(s)[k].type = "error"
    ]_vars

(* C6: a chat frame whose query is not a string, is empty, or is longer than
   2000 characters starts no flow (so no call to the AI backend or to the
   analytics collaborator is made), adds no `typing` envelope, and adds exactly
   one envelope, an `error`, for the sender. *)
C6_RejectedChatMakesNoCall ==
    [][(/\ last'.op = "message"
        /\ last'.arg.json = "object"
        /\ last'.arg.type = "chat"
        /\ LET q == QueryOf(last'.arg)
           IN q.t # "string" \/ Length(Trim(q)) = 0 \/ Length(q) > 2000
        /\ Registered(last'.sock)) =>
        LET s == last'.sock
        IN /\ flows' = flows
           /\ Len(Added(s)) = 1
           /\ Added(s)[1].type = "error"
           /\ OthersUntouched(s)
    ]_vars

C6_Witness ==
    /\ last.op = "message"
    /\ last.arg.type = "chat"
    /\ Length(QueryOf(last.arg)) = 2001
    /\ outbox[last.sock][Len(outbox[last.sock])].type = "error"

(* the connection a flow answers to can be delivered to *)
Deliverable(clientId) ==
    /\ clientId \in DOMAIN clients
    /\ ws[clients[clientId].ws].readyState = "OPEN"

HasUserMessage(messages, messageId) ==
    \E k \in 1..Len(messages) :
        messages[k] = [messages[k] EXCEPT !.from = "user", !.messageId = messageId, !.type = "chat"]

(* C7: when the axios call of a unary chat settles with a string `response`,
   one `ai-response` envelope carrying the chat's messageId goes to the
   connection (if it can be delivered to), updateAIResponse is called for that
   messageId, and once that call settles the assistant message with the same
   messageId is appended to the chat's session, after the user message tagged
   with it; when `response` is not a string, the only envelope is one `error`,
   nothing is appended and updateAIResponse is not called. *)
C7_UnaryResponse ==
    /\ [][(last'.op = "axios" /\ last'.arg.settled = "response") =>
            LET i == last'.sock
                f == flows[i]
                to == clients[f.clientId].ws
            IN /\ sessObj' = sessObj
               /\ IF last'.arg.kind = "string"
                  THEN /\ flows' = [flows EXCEPT ![i].pc = "updateAIResponse",
                                                 ![i].calls = Append(@, "updateAIResponse")]
                       /\ Deliverable(f.clientId) =>
                            /\ Added(to) = <<Envelope("ai-response", AnswerText, f.messageId)>>
                            /\ OthersUntouched(to)
                  ELSE /\ flows' = [flows EXCEPT ![i].pc = "done"]
                       /\ Deliverable(f.clientId) =>
                            /\ Len(Added(to)) = 1
                            /\ Added(to)[1].type = "error"
                            /\ OthersUntouched(to)
               /\ ~Deliverable(f.clientId) => outbox' = outbox
          ]_vars
    /\ [][last'.op = "updateAIResponse" =>
            LET i == last'.sock
                f == flows[i]
            IN /\ sessObj' = [sessObj EXCEPT ![f.session].messages =
                                Append(@, Entry("ai-response", "assistant", f.messageId, AnswerValue))]
               /\ HasUserMessage(sessObj[f.session].messages, f.messageId)
               /\ outbox' = outbox
               /\ flows' = [flows EXCEPT ![i].pc = "done"]
          ]_vars

C7_Witness ==
    /\ last.op = "updateAIResponse"
    /\ LET f == flows[last.sock]
           messages == sessObj[f.session].messages
       IN /\ f.pc = "done"
          /\ messages[Len(messages)].from = "assistant"
          /\ messages[Len(messages)].messageId = f.messageId
          /\ \E s \in Opened : \E k \in 1..Len(outbox[s]) :
                outbox[s][k] = Envelope("ai-response", AnswerText, f.messageId)
    /\ \E s \in Opened : \E k \in 1..Len(outbox[s]) :
          outbox[s][k] = Envelope("error", "Failed to connect to AI service", NoId)

----------------------------------------------------------------------------
(* Properties of the streaming relay *)

IsToken(envelope) == envelope.type = "stream-token"

(* the stream-token envelopes among those handed to sendMessage *)
Tokens(out) == SelectSeq(out, IsToken)

(* the envelopes of a relay whose whole body arrives as a single chunk *)
OneChunk(body) == onEnd(onData(onResponse(Relay(body, "request")), body)).out

(* a stream line with its surrounding whitespace and a leading `data: ` removed *)
Payload(rawLine) ==
    LET line == TrimText(rawLine) IN
    IF StartsWith(line, DataPrefix) THEN SubSeq(line, Len(DataPrefix) + 1, Len(line)) ELSE line

(* C8: when a relay has ended, the stream-token envelopes it emitted are those
   it emits when the same upstream body arrives as a single chunk, however the
   body was cut into chunks. *)
C8_ChunkingInvariant ==
    stream.pc = "ended" => Tokens(stream.out) = Tokens(OneChunk(stream.text))

(* C9 as stated: a complete stream line whose payload is [DONE], with or without
   the `data: ` prefix, emits no envelope. *)
C9_DoneEmitsNothing ==
    (stream.pc = "processed" /\ Payload(stream.text) = Done) => stream.out = <<>>

(* C9: a complete stream line that is `data: [DONE]` (surrounding whitespace
   aside) emits no stream-token and no error envelope; the line [DONE] without
   the prefix is relayed as one stream-token whose token is [DONE]. *)
C9_PrefixedDoneEmitsNothing ==
    stream.pc = "processed" =>
        /\ TrimText(stream.text) = DataPrefix \o Done => stream.out = <<>>
        /\ TrimText(stream.text) = Done =>
              stream.out = <<StreamEnvelope("stream-token", Done)>>

C9_Witness ==
    /\ stream.pc = "processed"
    /\ stream.text = <<" ", " ">> \o DataPrefix \o Done \o <<"\r">>
    /\ stream.out = <<>>

(* C10, for the lines that carry the `data: ` prefix: when the payload of a
   complete stream line decodes as JSON, one stream-token carrying
   choices[0].delta.content is emitted if that content is present and not
   empty, and nothing is emitted otherwise. *)
C10_TokenIffDeltaContent ==
    (/\ stream.pc = "processed"
     /\ StartsWith(TrimText(stream.text), DataPrefix)
     /\ JSONparse(Payload(stream.text)).ok) =>
        LET parsed == JSONparse(Payload(stream.text)) IN
        IF parsed.shape = "content" /\ parsed.content # <<>>
        THEN stream.out = <<StreamEnvelope("stream-token", parsed.content)>>
        ELSE stream.out = <<>>

(* C11 as stated: a stream line that is not empty and whose payload does not
   decode as JSON emits exactly one stream-token, whose token is the payload. *)
C11_NonJsonYieldsPayload ==
    (/\ stream.pc = "processed"
     /\ TrimText(stream.text) # <<>>
     /\ ~JSONparse(Payload(stream.text)).ok) =>
        stream.out = <<StreamEnvelope("stream-token", Payload(stream.text))>>

(* C11: a stream line that is not empty (whitespace aside), is not the sentinel
   `data: [DONE]`, and whose payload (the trimmed line, without a leading
   `data: `) does not decode as JSON emits exactly one stream-token, whose
   token is that payload; the sentinel line emits nothing. *)
C11_NonJsonYieldsPayloadUnlessDone ==
    (/\ stream.pc = "processed"
     /\ TrimText(stream.text) # <<>>
     /\ ~JSONparse(Payload(stream.text)).ok) =>
        IF TrimText(stream.text) = DataPrefix \o Done
        THEN stream.out = <<>>
        ELSE stream.out = <<StreamEnvelope("stream-token", Payload(stream.text))>>

C11_Witness ==
    /\ stream.pc = "processed"
    /\ stream.text = <<" ", " ">> \o Hello \o <<"\r">>
    /\ stream.out = <<StreamEnvelope("stream-token", Hello)>>

(* C12: once the relay has sent stream-start and its upstream stream is over,
   by completing or by failing with a stream error, exactly one stream-end with
   the messageId of the stream-start has been sent, and a stream error has sent
   an `error` envelope as well.  A relay that is over runs no further handler,
   so what it has sent by then is all it ever sends. *)
C12_StreamEndAfterStart ==
    stream.pc \in {"ended", "errored"} =>
        /\ stream.out[1] = StreamEnvelope("stream-start", <<>>)
        /\ CountType(stream.out, "stream-end") = 1
        /\ \A k \in 1..Len(stream.out) :
              stream.out[k].type = "stream-end" => stream.out[k].messageId = stream.out[1].messageId
        /\ stream.pc = "errored" => CountType(stream.out, "error") = 1

StreamTypes == {"stream-start", "stream-token", "stream-end"}

(* C13: a relay whose upstream response has begun has sent exactly one
   stream-start, as its first envelope; a stream-end is sent only by the end of
   the upstream stream and is then the last envelope, so every stream-token,
   the one flushed from the residual partial line included, lies between the
   two; stream-start, tokens and stream-end carry one messageId.  A relay whose
   response has not begun has sent no stream envelope. *)
C13_StreamBracket ==
    IF stream.pc \in {"open", "ended", "errored"}
    THEN /\ stream.out # <<>>
         /\ stream.out[1].type = "stream-start"
         /\ CountType(stream.out, "stream-start") = 1
         /\ \A k \in 1..Len(stream.out) :
               /\ stream.out[k].type \in StreamTypes =>
                     stream.out[k].messageId = stream.out[1].messageId
               /\ stream.out[k].type = "stream-end" => (k = Len(stream.out) /\ stream.pc = "ended")
         /\ stream.pc = "ended" => stream.out[Len(stream.out)].type = "stream-end"
    ELSE \A k \in 1..Len(stream.out) : stream.out[k].type \notin StreamTypes

(* the body had no final newline and came in two chunks or more: its token was flushed *)
C13_Witness ==
    /\ stream.pc = "ended"
    /\ stream.text = DataPrefix \o JsonContent(<<"H", "i">>)
    /\ stream.chunks = 2
    /\ stream.out = <<StreamEnvelope("stream-start", <<>>),
                      StreamEnvelope("stream-token", <<"H", "i">>),
                      StreamEnvelope("stream-end", <<>>)>>

(* the code axios gives the error of a request that ran into its `timeout` *)
TimeoutCode == "ECONNABORTED"

UnavailableMessage == "AI service is currently unavailable. Please try again later."
TimeoutMessage == "Request timeout - please try again"

(* C14: when the upstream call of a chat fails, exactly one `error` envelope is
   sent to the connection (if it can be delivered to); its message is the
   service-unavailable message for a refused connection, the timeout message
   for a timeout and for nothing but a timeout, and a message different from
   both for every other failure. *)
C14_FailureClassMessages ==
    [][(/\ last'.op = "axios"
        /\ last'.arg.settled = "error"
        /\ Deliverable(flows[last'.sock].clientId)) =>
        LET to == clients[flows[last'.sock].clientId].ws
            code == last'.arg.code
        IN /\ Len(Added(to)) = 1
           /\ Added(to)[1].type = "error"
           /\ OthersUntouched(to)
           /\ UnavailableMessage # TimeoutMessage
           /\ code = "ECONNREFUSED" <=> Added(to)[1].message = UnavailableMessage
           /\ code = TimeoutCode <=> Added(to)[1].message = TimeoutMessage
    ]_vars

(* C15: a streaming chat whose upstream call is refused before a response
   arrives has sent exactly one envelope, the `error` with the
   service-unavailable message of the streaming handler: no stream-start, no
   stream-end and no stream-token. *)
C15_RefusedStreamAttempt ==
    (stream.pc = "failed" /\ stream.failure = "ECONNREFUSED") =>
        /\ stream.out = <<Envelope("error", "AI service is currently unavailable", NoId)>>
        /\ CountType(stream.out, "stream-start") = CountType(stream.out, "stream-end")
        /\ CountType(stream.out, "stream-start") = 0
        /\ CountType(stream.out, "stream-token") = 0

C15_Witness ==
    /\ stream.pc = "failed"
    /\ stream.failure = "ECONNREFUSED"
    /\ stream.text # <<>>
    /\ CountType(stream.out, "error") = 1

----------------------------------------------------------------------------
(* Properties of the connection lifecycle *)

(* the steps that handle an inbound frame or resume the flow a frame started *)
FrameSteps == {"message", "storeQuestion", "axios", "updateAIResponse", "updateFeedback"}

(* C16: a step that handles an inbound frame of any type, or resumes a flow
   that a frame started (whatever the upstream call or the analytics call
   settled with), changes the readyState of no socket and leaves every
   clientId of the registry registered to the same socket; a clientId leaves
   the registry only in a step of a close event, an error event, a heartbeat
   sweep or the shutdown. *)
C16_FramesNeverDisconnect ==
    [][/\ last'.op \in FrameSteps =>
            /\ \A s \in SocketIds : ws'[s].readyState = ws[s].readyState
            /\ DOMAIN clients' = DOMAIN clients
            /\ \A c \in DOMAIN clients : clients'[c].ws = clients[c].ws
       /\ (\E c \in DOMAIN clients : c \notin DOMAIN clients') =>
            last'.op \in {"close", "error", "heartbeat", "signal"}
    ]_vars

(* the upstream call of a chat failed and its sender is still registered and open *)
C16_Witness ==
    /\ last.op = "axios"
    /\ last.arg.settled = "error"
    /\ Deliverable(flows[last.sock].clientId)
    /\ LET box == outbox[clients[flows[last.sock].clientId].ws]
       IN box[Len(box)].type = "error"

(* the types handleMessage has a handler for *)
HandledTypes == {"chat", "feedback", "human-escalation", "ping"}

(* C17: on a registered connection a `ping` frame adds exactly one envelope, a
   `pong`, and a frame whose type has no handler adds exactly one envelope, the
   `error` "Unknown message type"; neither starts a flow, so neither calls the
   AI backend or the analytics collaborator, and no other connection gets an
   envelope. *)
C17_PingAndUnknown ==
    [][(/\ last'.op = "message"
        /\ last'.arg.json = "object"
        /\ last'.arg.type \notin HandledTypes \ {"ping"}
        /\ Registered(last'.sock)) =>
        LET s == last'.sock
        IN /\ Added(s) = <<IF last'.arg.type = "ping"
                             THEN Envelope("pong", "", NoId)
                             ELSE Envelope("error", "Unknown message type", NoId)>>
           /\ OthersUntouched(s)
           /\ flows' = flows
    ]_vars

C17_Witness ==
    /\ last.op = "message"
    /\ last.arg.type = "bogus"
    /\ nsock = 2
    /\ outbox[last.sock] = <<Envelope("connection", "Connected to chatbot server", NoId),
                               Envelope("error", "Unknown message type", NoId)>>

(* the steps in which an await of a flow settles and the flow resumes *)
FlowSteps == {"storeQuestion", "axios", "updateAIResponse", "updateFeedback"}

(* C18: sendMessage changes nothing when its clientId is not registered or the
   registered socket is not OPEN; no step adds an envelope to a socket that is
   CLOSING or CLOSED; and a flow whose connection cannot be delivered to still
   resumes at each of its awaits and goes on as it would have: it adds no
   envelope anywhere, moves to its next await or to its end, and a unary chat
   appends its assistant message when updateAIResponse has settled. *)
C18_NoDeliveryToClosed ==
    /\ [](\A r \in RandomParts, t \in 0..MaxTime :
            ~Deliverable(generateClientId(r, t)) =>
                sendMessage(Cur, generateClientId(r, t), Envelope("pong", "", NoId)) = Cur)
    /\ [][
          /\ \A s \in SocketIds :
                ws[s].readyState \in {"CLOSING", "CLOSED"} => outbox'[s] = outbox[s]
          /\ (last'.op \in FlowSteps /\ ~Deliverable(flows[last'.sock].clientId)) =>
                LET i == last'.sock
                    f == flows[i]
                IN /\ outbox' = outbox
                   /\ flows'[i].pc # f.pc
                   /\ f.pc = "storeQuestion" => flows'[i].pc = "axios"
                   /\ f.pc = "updateAIResponse" =>
                        /\ flows'[i].pc = "done"
                        /\ sessObj'[f.session].messages =
                              Append(sessObj[f.session].messages,
                                     Entry("ai-response", "assistant", f.messageId, AnswerValue))
       ]_vars

(* a unary chat finished after its socket had closed and its entry had left the registry *)
C18_Witness ==
    /\ last.op = "updateAIResponse"
    /\ LET f == flows[last.sock]
       IN /\ f.pc = "done"
          /\ f.clientId \notin DOMAIN clients
          /\ ws[f.session].readyState = "CLOSED"
          /\ CountType(outbox[f.session], "ai-response") = 0
          /\ CountType(outbox[f.session], "typing") = 1

(* C19: a heartbeat tick removes from the registry every entry whose socket was
   not OPEN at the tick, and keeps every entry whose socket was OPEN, unchanged,
   sending that socket exactly one ping; the tick registers nothing, sends no
   envelope, pings no other socket and changes no readyState and no session. *)
C19_HeartbeatSweep ==
    [][last'.op = "heartbeat" =>
        /\ \A c \in DOMAIN clients :
              LET s == clients[c].ws IN
              IF ws[s].readyState = "OPEN"
              THEN /\ c \in DOMAIN clients'
                   /\ clients'[c] = clients[c]
                   /\ ws'[s].pings = ws[s].pings + 1
              ELSE /\ c \notin DOMAIN clients'
                   /\ ws'[s].pings = ws[s].pings
        /\ DOMAIN clients' \subseteq DOMAIN clients
        /\ Cardinality(DOMAIN clients') =
              Cardinality({c \in DOMAIN clients : ws[clients[c].ws].readyState = "OPEN"})
        /\ \A s \in SocketIds :
              /\ ws'[s].readyState = ws[s].readyState
              /\ (\A c \in DOMAIN clients : clients[c].ws # s) => ws'[s] = ws[s]
        /\ UNCHANGED <<sessions, sessObj, outbox, flows>>
    ]_vars

(* the tick reaped one entry, whose socket was closing, and pinged the other socket *)
C19_Witness ==
    /\ last.op = "heartbeat"
    /\ last.arg = 1
    /\ Cardinality(DOMAIN clients) = 1
    /\ \E s, t \in Opened :
          /\ ws[s].readyState = "CLOSING"
          /\ ws[s].cid \notin DOMAIN clients
          /\ ws[t].readyState = "OPEN"
          /\ ws[t].pings = 1
          /\ Registered(t)

(* C20: once SIGTERM or SIGINT has been delivered the shutdown sequence has run:
   no socket is left OPEN, the registry and the session map are empty, and
   cleanup, server.close and authService.disconnect ran in that order. *)
C20_SignalRunsShutdown ==
    (last.op = "signal" /\ last.arg \in Signals) =>
        /\ \A s \in SocketIds : ws[s].readyState # "OPEN"
        /\ clients = <<>>
        /\ sessions = <<>>
        /\ proc.log = ShutdownSteps

(***************************************************************************)
(* Properties of shutdown                                                  *)
(***************************************************************************)

(* C21: cleanup() can be invoked any number of times: every invocation returns
   with the process still running, leaves the registry and the session map
   empty and no socket it found registered OPEN, and an invocation that follows
   another directly changes nothing. *)
C21_CleanupIdempotent ==
    [][last'.op = "cleanup" =>
        /\ proc'.pc = "running"
        /\ clients' = <<>>
        /\ sessions' = <<>>
        /\ \A c \in DOMAIN clients : ws'[clients[c].ws].readyState # "OPEN"
        /\ last.op = "cleanup" => UNCHANGED <<ws, clients, sessions, sessObj, outbox, flows>>
    ]_vars

(* a second invocation, on the registry the first one emptied: the session of an
   admitted socket is gone, which only cleanup() does *)
C21_Witness ==
    /\ last.op = "cleanup"
    /\ last.arg = 0
    /\ Len(proc.log) = 2
    /\ \E s \in Opened : ws[s].readyState = "CLOSING" /\ ws[s].cid \notin DOMAIN sessions

(* C22: once a termination signal has started the shutdown, the process ends by
   completing the shutdown sequence (process.exit at its end), whatever the
   state of the client sockets. *)
C22_ShutdownReachesExit ==
    proc.pc # "running" => proc.pc = "exited"

(* C23: once cleanup() has cleared the registry no handshake is admitted: no
   socket, connection or session is created in any later step and the registry
   and the session map stay empty. *)
C23_NoAdmissionAfterCleanup ==
    [][Len(proc.log) \in CleanupCalls =>
        /\ nsock' = nsock
        /\ clients' = <<>>
        /\ sessions' = <<>>
    ]_vars

(* C24: after cleanup() has run no heartbeat tick executes. *)
C24_NoHeartbeatAfterCleanup ==
    [][Len(proc.log) \in CleanupCalls => last'.op # "heartbeat"]_vars

(***************************************************************************)
(* Properties of sessions                                                  *)
(***************************************************************************)

(* C25: in every reachable state the clientIds that have a session are the
   clientIds that have a registered connection. *)
C25_SessionPairedWithConnection ==
    DOMAIN sessions = DOMAIN clients

(* C26: in every step (routing of a frame, chat, escalation and feedback flows,
   heartbeat, close and error events) the message sequence of every session
   object before the step is a prefix of its message sequence after the step. *)
C26_HistoryAppendOnly ==
    [][\A s \in SocketIds :
          LET before == sessObj[s].messages
              after == sessObj'[s].messages
          IN /\ Len(before) <= Len(after)
             /\ SubSeq(after, 1, Len(before)) = before
    ]_vars

(* the assistant message of a chat was appended after the entries the frame left *)
C26_Witness ==
    /\ last.op = "updateAIResponse"
    /\ LET messages == sessObj[flows[last.sock].session].messages
       IN /\ Len(messages) >= 3
          /\ messages[1].from = "user"
          /\ messages[Len(messages)].from = "assistant"

(***************************************************************************)
(* Properties of the chat flow                                             *)
(***************************************************************************)

(* C27: a flow whose connection's transport has closed while its upstream call
   was in flight is cancelled: when one of its awaits settles after the close it
   appends nothing to any session and makes no updateAIResponse call. *)
C27_ClosedFlowCancelled ==
    [][(/\ last'.op \in FlowSteps
        /\ ~Deliverable(flows[last'.sock].clientId)
        /\ ws[flows[last'.sock].session].readyState \in {"CLOSING", "CLOSED"}) =>
            /\ sessObj' = sessObj
            /\ Len(SelectSeq(flows'[last'.sock].calls, LAMBDA fn : fn = "updateAIResponse"))
                 = Len(SelectSeq(flows[last'.sock].calls, LAMBDA fn : fn = "updateAIResponse"))
    ]_vars

(* C28: a frame that JSON.parse accepts, received on a registered connection,
   whatever its type and whether or not it passes validation, is in the session
   of the connection after the step as exactly one entry tagged from = "user"
   that carries the frame's fields, appended first: whatever the dispatch of the
   frame appends comes after it, and the envelopes of the dispatch are sent with
   the entry in place (handleMessage has no await before its push). *)
C28_FrameAppendedBeforeDispatch ==
    [][(/\ last'.op = "message"
        /\ last'.arg.json # "malformed"
        /\ Registered(last'.sock)) =>
        LET s == last'.sock
            frame == last'.arg
            entry == Entry(frame.type, "user", frame.messageId, QueryOf(frame))
            before == sessObj[sessions[ws[s].cid]].messages
            after == sessObj'[sessions[ws[s].cid]].messages
        IN /\ Len(after) > Len(before)
           /\ SubSeq(after, 1, Len(before)) = before
           /\ after[Len(before) + 1] = entry
           /\ Cardinality({k \in Len(before) + 1 .. Len(after) : after[k] = entry}) = 1
    ]_vars

(* a chat frame that fails validation: its entry is in the session and the only
   envelope of the step is the error *)
C28_Witness ==
    /\ last.op = "message"
    /\ last.arg.type = "chat"
    /\ flows = <<>>
    /\ Registered(last.sock)
    /\ Len(sessObj[last.sock].messages) = 1
    /\ sessObj[last.sock].messages[1].from = "user"
    /\ Len(outbox[last.sock]) = 2
    /\ outbox[last.sock][2].type = "error"

(* C29: whether storeQuestion resolves or rejects, the flow goes on to the axios
   call and the step sends nothing and appends nothing; whether updateAIResponse
   resolves or rejects, the step sends nothing (the `ai-response` envelope sent
   before the await stays the last envelope the flow produced), appends the
   assistant message carrying the flow's messageId to the flow's session and
   ends the flow; neither step adds an `error` envelope to any socket. *)
C29_AnalyticsFailuresSwallowed ==
    [][(last'.op \in {"storeQuestion", "updateAIResponse"} /\ last'.arg \in BOOLEAN) =>
        LET i == last'.sock
            f == flows[i]
        IN /\ outbox' = outbox
           /\ last'.op = "storeQuestion" =>
                /\ flows' = [flows EXCEPT ![i].pc = "axios", ![i].calls = Append(@, "axios")]
                /\ sessObj' = sessObj
           /\ last'.op = "updateAIResponse" =>
                /\ flows' = [flows EXCEPT ![i].pc = "done"]
                /\ sessObj' = [sessObj EXCEPT ![f.session].messages =
                       Append(@, Entry("ai-response", "assistant", f.messageId, AnswerValue))]
    ]_vars

(* updateAIResponse rejected: the connection holds the ai-response and no error,
   and the assistant message closes the session history *)
C29_Witness ==
    /\ last.op = "updateAIResponse"
    /\ last.arg = FALSE
    /\ LET f == flows[last.sock]
           box == outbox[f.session]
           messages == sessObj[f.session].messages
       IN /\ box[Len(box)] = Envelope("ai-response", AnswerText, f.messageId)
          /\ \A k \in 1..Len(box) : box[k].type # "error"
          /\ messages[Len(messages)].from = "assistant"
          /\ f.calls = <<"storeQuestion", "axios", "updateAIResponse">>

(* C30: the flows of two chat frames of one connection are interleaved: when
   the updateAIResponse call of a flow settles, the assistant message of that
   flow is appended at the end of the session history, also while an earlier
   flow of the same session has not appended its own, and no other flow moves;
   so the assistant message of B can precede the one of A. *)
C30_FlowsInterleave ==
    [][(last'.op = "updateAIResponse" /\ last'.arg \in BOOLEAN) =>
        LET i == last'.sock
            f == flows[i]
            after == sessObj'[f.session].messages
        IN /\ Len(after) = Len(sessObj[f.session].messages) + 1
           /\ after[Len(after)] = Entry("ai-response", "assistant", f.messageId, AnswerValue)
           /\ \A j \in DOMAIN flows \ {i} : flows'[j] = flows[j]
    ]_vars

(* chat A then chat B on one connection; the assistant message of B is in the
   session history before the assistant message of A *)
C30_Witness ==
    /\ Len(flows) = 2
    /\ flows[1].session = flows[2].session
    /\ flows[1].clientId = flows[2].clientId
    /\ flows[1].messageId # flows[2].messageId
    /\ LET messages == sessObj[flows[1].session].messages
           A == Entry("ai-response", "assistant", flows[1].messageId, AnswerValue)
           B == Entry("ai-response", "assistant", flows[2].messageId, AnswerValue)
       IN \E a, b \in 1..Len(messages) :
             /\ messages[a] = A
             /\ messages[b] = B
             /\ b < a
             /\ \E ua, ub \in 1..Len(messages) :
                   /\ ua < ub
                   /\ ub < b
                   /\ messages[ua].from = "user" /\ messages[ua].messageId = flows[1].messageId
                   /\ messages[ub].from = "user" /\ messages[ub].messageId = flows[2].messageId

(* C31: when the backend call of a chat flow fails (the call rejects, or the
   response carries no string), every other flow stays where it was, the
   registry, the sockets and the session histories are unchanged; and a flow
   whose backend call succeeds gets its `ai-response` with its own messageId,
   whatever happened to the other flows of the connection. *)
C31_FailureSparesOtherFlows ==
    [][last'.op = "axios" =>
        LET i == last'.sock
            f == flows[i]
            outcome == last'.arg
        IN IF outcome.settled = "error" \/ outcome.kind # "string"
           THEN /\ \A j \in DOMAIN flows \ {i} : flows'[j] = flows[j]
                /\ UNCHANGED <<clients, ws, sessions, sessObj>>
           ELSE /\ flows'[i].pc = "updateAIResponse"
                /\ Deliverable(f.clientId) =>
                      Added(clients[f.clientId].ws)
                        = <<Envelope("ai-response", AnswerText, f.messageId)>>
    ]_vars

(* two chats of one connection: the backend call of the first failed, the second
   got its own ai-response and its assistant message, the connection is registered *)
C31_Witness ==
    /\ Len(flows) = 2
    /\ flows[1].clientId = flows[2].clientId
    /\ flows[1].messageId # flows[2].messageId
    /\ flows[1].calls = <<"storeQuestion", "axios">>
    /\ flows[1].pc = "done"
    /\ flows[2].calls = <<"storeQuestion", "axios", "updateAIResponse">>
    /\ flows[2].pc = "done"
    /\ Deliverable(flows[2].clientId)
    /\ LET s == clients[flows[2].clientId].ws
           messages == sessObj[flows[2].session].messages
       IN /\ \E k \in 1..Len(outbox[s]) : outbox[s][k].type = "error"
          /\ \E k \in 1..Len(outbox[s]) :
                outbox[s][k] = Envelope("ai-response", AnswerText, flows[2].messageId)
          /\ messages[Len(messages)]
                = Entry("ai-response", "assistant", flows[2].messageId, AnswerValue)
          /\ \A k \in 1..Len(messages) :
                ~(messages[k].from = "assistant" /\ messages[k].messageId = flows[1].messageId)

(***************************************************************************)
(* Properties of frames                                                    *)
(***************************************************************************)

(* C32: handling a frame received on socket A leaves every other socket B as it
   was: B gets no envelope, B's session history is unchanged and the Connection
   record that holds B is unchanged; the same goes, when an await of a flow
   settles, for every socket that does not carry the flow's clientId. *)
C32_OtherConnectionsUnaffected ==
    [][last'.op \in FrameSteps =>
        LET senders == IF last'.op = "message"
                       THEN {last'.sock}
                       ELSE {s \in Opened : ws[s].cid = flows[last'.sock].clientId}
        IN \A t \in Opened \ senders :
              /\ outbox'[t] = outbox[t]
              /\ sessObj'[t] = sessObj[t]
              /\ \A c \in DOMAIN clients :
                    clients[c].ws = t => (c \in DOMAIN clients' /\ clients'[c] = clients[c])
    ]_vars

(* C33: every frame received on a registered connection, whether JSON.parse
   accepts it or not, and every pong, leaves the lastActivity of the connection
   at the current time. *)
C33_ActivityOnEveryFrame ==
    [][(last'.op \in {"message", "pong"} /\ Registered(last'.sock)) =>
          clients'[ws[last'.sock].cid].lastActivity = now
    ]_vars

(* C34: on a connection that can be delivered to, a `feedback` frame without
   messageId or feedbackType, or with a feedbackType other than `positive` and
   `negative`, adds exactly one `error` envelope and starts no flow, so
   updateFeedback is not called; a valid one adds no envelope yet and calls
   updateFeedback once with its messageId and feedbackType; when that call
   settles the flow ends without another call and adds exactly one envelope:
   `feedback-confirmation` with the messageId, the feedbackType and the flags
   that follow from it if the call resolved, `error` if it rejected. *)
C34_Feedback ==
    [][/\ (/\ last'.op = "message"
           /\ last'.arg.json = "object"
           /\ last'.arg.type = "feedback"
           /\ Registered(last'.sock)) =>
            LET s == last'.sock
                frame == last'.arg
            IN IF \/ frame.messageId = NoId
                  \/ frame.feedbackType \notin {"positive", "negative"}
               THEN /\ Len(Added(s)) = 1
                    /\ Added(s)[1].type = "error"
                    /\ flows' = flows
               ELSE /\ Added(s) = <<>>
                    /\ flows' = Append(flows,
                          [Flow(ws[s].cid, sessions[ws[s].cid], frame.messageId) EXCEPT
                              !.feedbackType = frame.feedbackType,
                              !.pc = "updateFeedback",
                              !.calls = <<"updateFeedback">>])
       /\ (last'.op = "updateFeedback" /\ Deliverable(flows[last'.sock].clientId)) =>
            LET i == last'.sock
                f == flows[i]
                to == clients[f.clientId].ws
            IN /\ flows' = [flows EXCEPT ![i].pc = "done"]
               /\ Len(Added(to)) = 1
               /\ OthersUntouched(to)
               /\ IF last'.arg.ok
                  THEN Added(to)[1] =
                         [type |-> "feedback-confirmation",
                          message |-> "Feedback submitted successfully",
                          messageId |-> f.messageId,
                          feedbackType |-> f.feedbackType,
                          positiveFeedback |-> (f.feedbackType = "positive"),
                          negativeFeedback |-> (f.feedbackType = "negative")]
                  ELSE Added(to)[1].type = "error"
    ]_vars

(* a negative feedback was stored and confirmed *)
C34_Witness ==
    /\ last.op = "updateFeedback"
    /\ last.arg.ok
    /\ flows[last.sock].feedbackType = "negative"
    /\ flows[last.sock].calls = <<"updateFeedback">>
    /\ LET box == outbox[flows[last.sock].session]
       IN /\ Len(box) = 2
          /\ box[2].type = "feedback-confirmation"
          /\ box[2].negativeFeedback

(* C35: a `human-escalation` frame received on a registered connection is
   handled in one step: the session history grows by the frame's entry, the
   system entry 'Human escalation requested' and the response entry, in this
   order; the connection gets exactly one envelope, the fixed
   `human-escalation-response`; no flow is started; and in every reachable
   state every 'Human escalation requested' entry of a session is directly
   followed by the response entry, whatever other flows were in flight. *)
C35_EscalationAtomic ==
    /\ [](\A s \in SocketIds :
            \A k \in 1..Len(sessObj[s].messages) :
               sessObj[s].messages[k] = Entry("system", "system", NoId, EscalationRequested) =>
                  /\ k < Len(sessObj[s].messages)
                  /\ sessObj[s].messages[k + 1]
                       = Entry("human-escalation-response", "system", NoId, EscalationAnswer))
    /\ [][
          (/\ last'.op = "message"
           /\ last'.arg.json = "object"
           /\ last'.arg.type = "human-escalation"
           /\ Registered(last'.sock)) =>
            LET s == last'.sock
                so == sessions[ws[s].cid]
            IN /\ sessObj'[so].messages = sessObj[so].messages \o
                     <<Entry("human-escalation", "user", NoId, Undefined),
                       Entry("system", "system", NoId, EscalationRequested),
                       Entry("human-escalation-response", "system", NoId, EscalationAnswer)>>
               /\ Added(s) = <<Envelope("human-escalation-response",
                                        "A human agent will contact you soon.", NoId)>>
               /\ OthersUntouched(s)
               /\ flows' = flows
       ]_vars

(* an escalation was handled while a chat of the same connection was in flight:
   the assistant message of the chat landed after the pair of entries *)
C35_Witness ==
    /\ Len(flows) = 1
    /\ flows[1].pc = "done"
    /\ LET messages == sessObj[flows[1].session].messages
       IN /\ Len(messages) = 6
          /\ messages[2].messageId = flows[1].messageId
          /\ messages[4] = Entry("system", "system", NoId, EscalationRequested)
          /\ messages[5] = Entry("human-escalation-response", "system", NoId, EscalationAnswer)
          /\ messages[6] = Entry("ai-response", "assistant", flows[1].messageId, AnswerValue)

(* C36: a `human-escalation` frame whose reason is longer than the escalation
   constraints allow, received on a registered connection, is answered with an
   `error` envelope and with no `human-escalation-response`; and every
   `human-escalation` frame is answered with at least one envelope. *)
C36_EscalationValidated ==
    [][(/\ last'.op = "message"
        /\ last'.arg.json = "object"
        /\ last'.arg.type = "human-escalation"
        /\ Registered(last'.sock)) =>
        LET s == last'.sock
            reason == last'.arg.reason
        IN /\ Len(Added(s)) >= 1
           /\ (reason.t = "string" /\ Length(reason) > MaxReasonLength) =>
                 /\ \E k \in 1..Len(Added(s)) : Added(s)[k].type = "error"
                 /\ \A k \in 1..Len(Added(s)) : Added(s)[k].type # "human-escalation-response"
    ]_vars

(* C37: a chat frame that passes validateMessage on a registered connection adds
   exactly one envelope, `typing`, and starts one flow; when the storeQuestion
   or the updateAIResponse call of a flow settles no envelope is added; when its
   axios call settles and the connection can be delivered to, exactly one
   envelope is added, an `ai-response` or an `error`, and the flow ends or goes
   on to updateAIResponse; and no flow is at its end without its axios call
   having settled. *)
C37_TypingThenOneTerminal ==
    /\ [](\A i \in DOMAIN flows :
            flows[i].pc = "done" =>
               \E k \in DOMAIN flows[i].calls : flows[i].calls[k] = "axios")
    /\ [][
          /\ (/\ last'.op = "message"
              /\ last'.arg.json = "object"
              /\ last'.arg.type = "chat"
              /\ validateMessage(last'.arg).valid
              /\ Registered(last'.sock)) =>
                /\ Added(last'.sock) = <<Envelope("typing", "AI is thinking...", NoId)>>
                /\ OthersUntouched(last'.sock)
                /\ Len(flows') = Len(flows) + 1
          /\ last'.op \in {"storeQuestion", "updateAIResponse"} => outbox' = outbox
          /\ (last'.op = "axios" /\ Deliverable(flows[last'.sock].clientId)) =>
                LET i == last'.sock
                    to == clients[flows[i].clientId].ws
                IN /\ Len(Added(to)) = 1
                   /\ OthersUntouched(to)
                   /\ \/ Added(to)[1].type = "ai-response" /\ flows'[i].pc = "updateAIResponse"
                      \/ Added(to)[1].type = "error" /\ flows'[i].pc = "done"
       ]_vars

(* one chat on one connection, answered: welcome, typing, ai-response *)
C37_Witness ==
    /\ Len(flows) = 1
    /\ flows[1].pc = "done"
    /\ Deliverable(flows[1].clientId)
    /\ LET box == outbox[clients[flows[1].clientId].ws]
       IN /\ Len(box) = 3
          /\ box[2] = Envelope("typing", "AI is thinking...", NoId)
          /\ box[3] = Envelope("ai-response", AnswerText, flows[1].messageId)

(* C38: a frame received on a registered connection and answered with the error
   "Invalid message format" leaves every session history as it was, whether
   JSON.parse rejected the frame or accepted it as something that is not an
   object. *)
C38_InvalidFormatLeavesHistory ==
    [][(/\ last'.op = "message"
        /\ Registered(last'.sock)
        /\ \E k \in 1..Len(Added(last'.sock)) :
              Added(last'.sock)[k] = Envelope("error", "Invalid message format", NoId)) =>
          sessObj' = sessObj
    ]_vars

(***************************************************************************)
(* Properties of the streaming relay, continued                            *)
(***************************************************************************)

(* C39: when the upstream body holds a line `data: [DONE]`, the relay emits no
   stream-token for anything that follows the first such line: in every state
   the stream-token envelopes emitted so far are among those of the lines that
   precede it. *)
C39_DoneEndsStream ==
    LET lines == SplitLines(Utf8Decode(stream.text))
        dones == {k \in 1..Len(lines) : TrimText(lines[k]) = DataPrefix \o Done}
    IN  (stream.pc \in {"open", "ended", "errored"} /\ dones # {}) =>
           LET first == CHOOSE k \in dones : \A j \in dones : k <= j
           IN  Len(Tokens(stream.out))
                 <= Len(Tokens(processLines(<<>>, SubSeq(lines, 1, first - 1))))

(***************************************************************************)
(* Properties of shutdown, continued                                       *)
(***************************************************************************)

(* C40: after cleanup() has run, a chat flow whose clientId is no longer in the
   registry still resumes at each of its awaits and runs to its end: each step
   moves the flow on, adds no envelope to any socket, and leaves the registry,
   the session map and the sockets as they were, so both maps stay empty. *)
C40_FlowAfterCleanup ==
    [][(/\ last'.op \in FlowSteps
        /\ Len(proc.log) \in CleanupCalls
        /\ flows[last'.sock].clientId \notin DOMAIN clients) =>
        LET i == last'.sock
        IN /\ proc'.pc = "running"
           /\ flows'[i].pc # flows[i].pc
           /\ flows[i].pc = "storeQuestion" => flows'[i].pc = "axios"
           /\ flows[i].pc = "updateAIResponse" => flows'[i].pc = "done"
           /\ flows[i].pc = "axios" => flows'[i].pc \in {"updateAIResponse", "done"}
           /\ UNCHANGED <<outbox, clients, sessions, ws>>
    ]_vars

(* cleanup() ran while the chat was in flight; the flow then ran to its end and
   the registry and the session map are still empty *)
C40_Witness ==
    /\ last.op = "updateAIResponse"
    /\ flows[last.sock].pc = "done"
    /\ Len(proc.log) = 1
    /\ clients = <<>>
    /\ sessions = <<>>
    /\ nsock = 1
    /\ Len(outbox[1]) = 2
    /\ outbox[1][2].type = "typing"

====
